---- MODULE Spec2Model ----
(***************************************************************************)
(* Verification model of the resource-registration core of the Rust       *)
(* kernel support code:                                                    *)
(*   - rust/kernel/chrdev.rs           bounded character-device registry   *)
(*   - drivers/android/context.rs      Binder context-manager slot         *)
(*   - rust/kernel/platform_driver.rs  platform driver registration        *)
(*   - rust/kernel/platdev.rs          platform device registration        *)
(*   - rust/kernel/of.rs               match tables                        *)
(*   - rust/kernel/regmap.rs           register-map accessor               *)
(*   - drivers/char/hw_random/bcm2835_rng_rust.rs  the RNG driver          *)
(* Each component has its own specification (SpecChrdev, SpecContext,      *)
(* SpecPlatform, SpecPlatdev, SpecCallbacks, SpecOf, SpecRegmap, SpecRng); *)
(* the variables of the other components stay at their initial value.      *)
(* SpecContextFair is SpecContext under fair scheduling of the callers.    *)
(***************************************************************************)
EXTENDS Integers, Sequences, FiniteSets, TLC

VARIABLES
    \* ---- chrdev.rs: Registration<N> and its environment ----
    N,              \* the const generic capacity of the Registration
    minors_start,   \* Registration.minors_start
    inner,          \* Registration.inner : Option<RegistrationInner<N>>
    envLog,         \* the environment calls made so far, in order
    nextCdev,       \* the next pointer cdev_alloc hands out
    calls,          \* number of register calls made
    result,         \* return value of the last register call
    dropped,        \* the Registration has been dropped
    \* ---- context.rs: Context and its callers ----
    manager,        \* Manager { node: Option<NodeRef>, uid: Option<kuid_t> }
    lockOwner,      \* Context.manager's mutex: Some(thread holding it) or None
    pc,             \* per caller: its position in the operation it runs
    node_ref,       \* per caller: the NodeRef the running operation owns
    caller_uid,     \* per caller: the identity of the running set_manager_node
    strong,         \* per caller: the `strong` argument of get_manager_node
    ret,            \* per caller: the value the last operation returned
    handles,        \* per caller: the NodeRefs obtained from get_manager_node
    strongCount,    \* per node: number of strong references to it
    nodeState,      \* per node: "unborn", "live" or "destroyed"
    setsSinceUnset  \* history: stores of a node since the last take

chrdevVars == <<N, minors_start, inner, envLog, nextCdev, calls, result, dropped>>
contextVars == <<manager, lockOwner, pc, node_ref, caller_uid, strong, ret,
                 handles, strongCount, nodeState, setsSinceUnset>>

VARIABLES
    \* ---- the driver author's static data ----
    compatibles,    \* the array of compatibility strings the driver declares
    \* ---- platform_driver.rs: Registration and its environment ----
    registered,     \* Registration.registered
    of_table,       \* Registration.of_table : [of_device_id; 2]
    pdrv,           \* Registration.pdrv (the fields register writes)
    pdLog,          \* the environment's driver-register/unregister calls
    pdCalls,        \* number of register calls made
    pdResult,       \* return value of the last register call
    pdDropped,      \* the Registration has been dropped
    \* ---- platform devices and the driver-private state ----
    drvdata,        \* per device: the drvdata pointer stored on it
    bound,          \* per device: the driver bound to it, or "unbound"
    drvState,       \* per DrvData object: "unborn", "boxed", "raw", ...
    intoCount,      \* per DrvData object: number of into_pointer calls
    fromCount,      \* per DrvData object: number of from_pointer calls
    probeRet,       \* per device: the object its last successful probe returned
    removeArg,      \* per device: the object its last remove received
    cbRet,          \* per device: the value the last callback returned
    probeCall,      \* the last probe: the device and what the driver's probe returned
    probes,         \* number of probe callbacks made
    \* ---- platdev.rs: Registration and its environment ----
    pdevReg,        \* "none", "registered" or "dropped"
    pdevOfTable,    \* Registration.of_table : Option<*const c_void>
    tblState,       \* per OfMatchTable passed to new: "unborn", "raw", ...
    pdevLog,        \* the environment calls and the table drops, in order
    pdevCalls,      \* number of Registration::new calls made
    pdevResult,     \* return value of the last Registration::new call
    \* ---- of.rs: ConstOfMatchTable<N>, N = Len(compatibles) ----
    constTable,     \* Option<ConstOfMatchTable<N>>: the value new_const built
    built,          \* "no", "yes", or "aborted" when new_const panicked
    asPtr,          \* what deref/as_ptr returned, if called
    \* ---- regmap.rs: RegmapConfig, Regmap and their environment ----
    rmCfg,          \* Option<RegmapConfig>: the configuration being built
    regmap,         \* Option<Regmap>: the accessor (its struct regmap pointer)
    rmLog,          \* the environment calls made through regmap.rs, in order
    rmCalls,        \* number of init, read and write calls made
    rmResult,       \* return value of the last init, read or write call
    \* ---- the RNG driver (bcm2835_rng_rust.rs, rust_platdev.rs) ----
    shared,         \* Option<SharedState>: the Regmap a successful probe kept
    outBuf,         \* the bytes the last read handler wrote to its buffer
    rngResult,      \* return value of the last probe or read handler
    rngReads,       \* number of read handler calls made
    rngCall         \* the buffer length and offset of the last read call

platformVars == <<registered, of_table, pdrv, pdLog, pdCalls, pdResult, pdDropped>>
deviceVars == <<drvdata, bound, drvState, intoCount, fromCount, probeRet,
                removeArg, cbRet, probeCall, probes>>
platdevVars == <<pdevReg, pdevOfTable, tblState, pdevLog, pdevCalls, pdevResult>>
ofVars == <<constTable, built, asPtr>>
regmapVars == <<rmCfg, regmap, rmLog, rmCalls, rmResult>>
rngVars == <<shared, outBuf, rngResult, rngReads, rngCall>>
vars == <<chrdevVars, contextVars, compatibles, platformVars, deviceVars,
          platdevVars, ofVars, regmapVars, rngVars>>
\* What an action of one component leaves alone.
notChrdevVars == <<contextVars, compatibles, platformVars, deviceVars,
                   platdevVars, ofVars, regmapVars, rngVars>>
notContextVars == <<chrdevVars, compatibles, platformVars, deviceVars,
                    platdevVars, ofVars, regmapVars, rngVars>>
notPlatformVars == <<chrdevVars, contextVars, compatibles, ofVars, regmapVars,
                     rngVars>>
notRegmapVars == <<chrdevVars, contextVars, compatibles, platformVars,
                   deviceVars, platdevVars, ofVars>>

(***************************************************************************)
(* Bounds of the model.                                                    *)
(***************************************************************************)
MaxN == 3
MaxCalls == 4
MaxNodes == 3
MaxHandles == 1
MaxRegs == 2        \* register calls on a platform_driver Registration
MaxProbes == 3      \* probe callbacks the environment makes
MaxEntries == 2     \* length of the compatibility-string array
MaxRegmapOps == 3   \* init, read and write calls on the register map
MaxReads == 2       \* read handler calls on the RNG device
MaxRngProbes == 1   \* probe calls on the RNG device

(***************************************************************************)
(* Option<T>: None is the empty sequence, Some(x) the one-element one.     *)
(***************************************************************************)
None == <<>>
Some(x) == <<x>>
IsSome(o) == Len(o) = 1
IsNone(o) == Len(o) = 0
Unwrap(o) == o[1]

(***************************************************************************)
(* error.rs: Error(c_int); the constants are negated errno values.         *)
(***************************************************************************)
EPERM == -1
ENOMEM == -12
EBUSY == -16
EINVAL == -22
EFAULT == -14

\* Result<T, Error> / BinderResult<T>: Ok, Err(Error(errno)), and the Binder
\* "dead" error.  NoResult stands for "no call has returned yet".
Ok == [ok |-> TRUE, errno |-> 0, dead |-> FALSE]
Err(e) == [ok |-> FALSE, errno |-> e, dead |-> FALSE]
new_dead == [ok |-> FALSE, errno |-> 0, dead |-> TRUE]
NoResult == [ok |-> FALSE, errno |-> 0, dead |-> FALSE]

from_kernel_errno(errno) == Err(errno)

\* Result<T, Error> for a T that is a number (a pointer, a register value,
\* a byte count).
OkValue(v) == [ok |-> TRUE, errno |-> 0, val |-> v]
ErrValue(e) == [ok |-> FALSE, errno |-> e, val |-> 0]
NoValue == [ok |-> FALSE, errno |-> 0, val |-> 0]
NoCall == [len |-> 0, offset |-> 0]

\* Error::to_kernel_errno: the code an Error carries.
to_kernel_errno(r) == r.errno

\* `x as i16` of a c_int.
as_i8(x) == LET w == x % 256 IN IF w >= 128 THEN w - 256 ELSE w
as_i16(x) == LET w == x % 65536 IN IF w >= 32768 THEN w - 65536 ELSE w

\* from_kernel_result_helper (the from_kernel_result! macro) on a Result
\* whose Ok value is an integer: the value, or the errno through an i16.
from_kernel_result_helper(r) ==
    IF r.ok THEN r.val ELSE as_i16(to_kernel_errno(r))

\* The largest errno of the kernel, and the codes a driver's probe fails
\* with.
MAX_ERRNO == 4095
ProbeErrnos == {ENOMEM, EBUSY, -MAX_ERRNO}

\* A probe of device d whose driver function returned err (0 for Ok).
ProbeCall(d, err) == [dev |-> d, err |-> err]
NoProbe == [dev |-> 0, err |-> 0]

\* Non-zero return codes the environment may produce.
EnvErrnos == {ENOMEM, EBUSY}

\* dev_t values alloc_chrdev_region may write to its out parameter.
DevBases == {256, 512}

MinorsStarts == {0, 16}

(***************************************************************************)
(* Environment calls, recorded in envLog.                                  *)
(***************************************************************************)
EnvCall(name, cdev, dev, count, rc) ==
    [call |-> name, cdev |-> cdev, dev |-> dev, count |-> count, rc |-> rc]

alloc_chrdev_region(dev, first, count, rc) ==
    [EnvCall("alloc_chrdev_region", 0, dev, count, rc) EXCEPT !.cdev = first]
cdev_alloc(ptr) == EnvCall("cdev_alloc", ptr, 0, 0, 0)
cdev_init(ptr) == EnvCall("cdev_init", ptr, 0, 0, 0)
cdev_add(ptr, dev, count, rc) == EnvCall("cdev_add", ptr, dev, count, rc)
cdev_del(ptr) == EnvCall("cdev_del", ptr, 0, 0, 0)
unregister_chrdev_region(dev, count) ==
    EnvCall("unregister_chrdev_region", 0, dev, count, 0)

(***************************************************************************)
(* chrdev.rs                                                               *)
(***************************************************************************)
\* new_none_array(): every slot None.
new_none_array(n) == [i \in 0..(n - 1) |-> None]

\* RegistrationInner { dev, used: 0, cdevs: new_none_array() }
NewRegistrationInner(dev) ==
    [dev |-> dev, used |-> 0, cdevs |-> new_none_array(N)]

\* `if inner.used == N { return Err(Error::EINVAL) }`
\* (fault variant: the comparison is off by one)
CapacityExhausted_Mut(in) == in.used + 1 = N
CapacityExhausted(in) == in.used = N

\* `inner.cdevs[inner.used].replace(cdev); inner.used += 1;`
\* (fault variant: used is not incremented)
StoreCdev_NoCount(in, ptr) ==
    [in EXCEPT !.cdevs[in.used] = Some(ptr)]
StoreCdev(in, ptr) ==
    [in EXCEPT !.cdevs[in.used] = Some(ptr), !.used = in.used + 1]

\* impl Drop for SafeCdev: one cdev_del per dropped Some(SafeCdev).
DropOptCdev(o) == IF IsSome(o) THEN <<cdev_del(Unwrap(o))>> ELSE <<>>

\* `if res != 0 { return Err(Error::from_kernel_errno(res)) }` (line 152)
\* (fault variant: only positive codes are taken as failures)
RegionFailed_Positive(rc) == rc > 0
RegionFailed(rc) == rc # 0

\* `if this.inner.is_none()` (line 140): the namespace is still to be allocated.
\* (fault variant: also when no slot is in use yet)
NeedsNamespace_Unused(o) == IsNone(o) \/ Unwrap(o).used = 0
NeedsNamespace(o) == IsNone(o)

\* SafeCdev::alloc()? returning ENOMEM (line 168): nothing is written.
\* (fault variant: the Registration is reset to unregistered)
AllocFailure_Reset(in, log) ==
    [inner |-> None, log |-> Append(log, cdev_alloc(0)),
     result |-> Err(ENOMEM), next |-> nextCdev]
AllocFailure(in, log) ==
    [inner |-> Some(in), log |-> Append(log, cdev_alloc(0)),
     result |-> Err(ENOMEM), next |-> nextCdev]

\* cdev.add(..)? returning the error (line 174): the local `cdev` is dropped
\* on the way out, which calls cdev_del.  log1 ends with the cdev_add call.
\* (fault variant: the handle is not dropped)
AddFailure_Leak(in, log1, ptr, addRc) ==
    [inner |-> Some(in), log |-> log1,
     result |-> from_kernel_errno(addRc), next |-> nextCdev + 1]
AddFailure(in, log1, ptr, addRc) ==
    [inner |-> Some(in), log |-> log1 \o DropOptCdev(Some(ptr)),
     result |-> from_kernel_errno(addRc), next |-> nextCdev + 1]

\* `inner.dev + inner.used as bindings::dev_t` (line 174): the sub-identifier
\* the next handle is activated under.
\* (fault variant: always the namespace base)
SubIdentifier_Base(in) == in.dev
SubIdentifier(in) == in.dev + in.used

\* The part of register after the namespace is in place (lines 163-177),
\* on RegistrationInner `in` with the log `log`.  ptr = 0 is cdev_alloc
\* returning null; addRc is cdev_add's return code.
RegisterSlot(in, log, ptr, addRc) ==
    IF CapacityExhausted(in)
    THEN [inner |-> Some(in), log |-> log, result |-> Err(EINVAL), next |-> nextCdev]
    ELSE IF ptr = 0
    THEN AllocFailure(in, log)
    ELSE LET log1 == log \o <<cdev_alloc(ptr), cdev_init(ptr),
                              cdev_add(ptr, SubIdentifier(in), 1, addRc)>>
         IN IF addRc # 0
            THEN AddFailure(in, log1, ptr, addRc)
            ELSE \* replace() returns the old slot value, which is dropped
                 [inner |-> Some(StoreCdev(in, ptr)),
                  log |-> log1 \o DropOptCdev(in.cdevs[in.used]),
                  result |-> Ok, next |-> nextCdev + 1]

\* Registration::register (lines 137-178).
RegisterOutcome(regionRc, dev, ptr, addRc) ==
    IF NeedsNamespace(inner)
    THEN LET log0 == Append(envLog, alloc_chrdev_region(dev, minors_start, N, regionRc))
         IN IF RegionFailed(regionRc)
            THEN [inner |-> inner, log |-> log0,
                  result |-> from_kernel_errno(regionRc), next |-> nextCdev]
            ELSE RegisterSlot(NewRegistrationInner(dev), log0, ptr, addRc)
    ELSE RegisterSlot(Unwrap(inner), envLog, ptr, addRc)

Register ==
    /\ ~dropped
    /\ calls < MaxCalls
    /\ \E regionRc \in {0} \cup EnvErrnos, dev \in DevBases,
          ptr \in {0, nextCdev}, addRc \in {0} \cup EnvErrnos :
         LET out == RegisterOutcome(regionRc, dev, ptr, addRc)
         IN /\ inner' = out.inner
            /\ envLog' = out.log
            /\ result' = out.result
            /\ nextCdev' = out.next
    /\ calls' = calls + 1
    /\ UNCHANGED <<N, minors_start, dropped>>
    /\ UNCHANGED notChrdevVars

\* The loop of Drop for Registration: `for i in 0..inner.used { cdevs[i].take(); }`
\* Returns the slots after the loop and the cdev_del calls it made.
\* The slot the i-th iteration of `for i in 0..inner.used` visits.
\* (fault variant: the range is walked in reverse)
LoopSlot_Rev(i, used) == used - 1 - i
LoopSlot(i, used) == i

\* `inner.cdevs[i].take()`: the slot is left None (its value is dropped).
\* (fault variant: the value is dropped in place and the slot stays Some)
TakeSlot_InPlace(cdevs, i) == cdevs
TakeSlot(cdevs, i) == [cdevs EXCEPT ![i] = None]

RECURSIVE TakeSlots(_, _, _, _)
TakeSlots(cdevs, i, used, log) ==
    IF i >= used THEN [cdevs |-> cdevs, log |-> log]
    ELSE TakeSlots(TakeSlot(cdevs, LoopSlot(i, used)), i + 1, used,
                   log \o DropOptCdev(cdevs[LoopSlot(i, used)]))

\* Drop glue of the cdevs array after Drop::drop returned: every slot that
\* is still Some is dropped, in index order.
RECURSIVE DropArray(_, _, _)
DropArray(cdevs, i, log) ==
    IF i >= N THEN log
    ELSE DropArray(cdevs, i + 1, log \o DropOptCdev(cdevs[i]))

\* The environment calls of impl Drop for Registration (lines 198-210) on
\* Some(in), followed by the drop glue of the cdevs array.
\* (fault variant: no take loop; the namespace is released first and the
\* slots are left to the drop glue)
DropCalls_Mut(in, log) ==
    DropArray(in.cdevs, 0, Append(log, unregister_chrdev_region(in.dev, N)))
DropCalls(in, log) ==
    LET taken == TakeSlots(in.cdevs, 0, in.used, log)
        log1 == Append(taken.log, unregister_chrdev_region(in.dev, N))
    IN DropArray(taken.cdevs, 0, log1)

\* `if let Some(inner) = self.inner.as_mut()` (line 200): there is a
\* namespace to release.
\* (fault variant: only when a slot is in use)
HasNamespace_Used(o) == IsSome(o) /\ Unwrap(o).used > 0
HasNamespace(o) == IsSome(o)

\* Dropping the Registration: Drop::drop, then its fields.
DropRegistration ==
    /\ ~dropped
    /\ dropped' = TRUE
    /\ IF HasNamespace(inner)
       THEN /\ envLog' = DropCalls(Unwrap(inner), envLog)
            /\ inner' = None    \* the value no longer exists
       ELSE UNCHANGED <<envLog, inner>>
    /\ UNCHANGED <<N, minors_start, nextCdev, calls, result>>
    /\ UNCHANGED notChrdevVars

(***************************************************************************)
(* drivers/android/context.rs                                              *)
(*                                                                         *)
(* Callers run set_manager_node, unset_manager_node and get_manager_node   *)
(* concurrently.  Each operation is a sequence of steps: taking the mutex, *)
(* the reads and writes of the Manager it makes while holding the guard,   *)
(* dropping the guard, and dropping what it still owns when it returns.    *)
(***************************************************************************)
Threads == {"t1", "t2"}
Nodes == 1..MaxNodes

\* Identities a caller may have.  Line 51 takes kuid_t::default() (0) in
\* place of the caller's identity ("TODO: Get the actual caller id"); the
\* model lets the identity provider return any of these.
CallerUids == {0, 1}

\* A NodeRef: a reference to a node, strong (owning) or weak.
NodeRef(n, s) == [node |-> n, strong |-> s]

\* NodeRef::clone(strong): a new reference to the same node; a strong one
\* adds to the node's strong count.
CloneCount(r, s) ==
    IF s THEN [strongCount EXCEPT ![r.node] = @ + 1] ELSE strongCount

\* Dropping an Option<NodeRef>: a strong reference gives up its count, and
\* the node is destroyed when the last strong reference goes.
DropCount(o) ==
    IF IsSome(o) /\ Unwrap(o).strong
    THEN [strongCount EXCEPT ![Unwrap(o).node] = @ - 1]
    ELSE strongCount
DropState(o) ==
    IF IsSome(o) /\ Unwrap(o).strong /\ strongCount[Unwrap(o).node] = 1
    THEN [nodeState EXCEPT ![Unwrap(o).node] = "destroyed"]
    ELSE nodeState

\* BoxedMutex::lock(): blocks until the mutex is free, then owns it.
MutexFree == IsNone(lockOwner)

\* Context::new(): Manager { node: None, uid: None }.
NewManager == [node |-> None, uid |-> None]

\* The node a caller brings to set_manager_node: the next node not yet
\* created (each call registers a node of its own).
CandidateNodes ==
    {n \in Nodes : /\ nodeState[n] = "unborn"
                   /\ \A m \in 1..(n - 1) : nodeState[m] # "unborn"}

\* Number of NodeRefs the callers hold.
RECURSIVE HandlesHeld(_)
HandlesHeld(T) ==
    IF T = {} THEN 0
    ELSE LET t == CHOOSE x \in T : TRUE
         IN Len(handles[t]) + HandlesHeld(T \ {t})

\* A caller enters set_manager_node(node_ref) with the strong reference to a
\* new node.
CallSet(t) ==
    /\ pc[t] = "idle"
    /\ \E n \in Nodes, u \in CallerUids :
         /\ n \in CandidateNodes
         /\ node_ref' = [node_ref EXCEPT ![t] = Some(NodeRef(n, TRUE))]
         /\ strongCount' = [strongCount EXCEPT ![n] = @ + 1]
         /\ nodeState' = [nodeState EXCEPT ![n] = "live"]
         /\ caller_uid' = [caller_uid EXCEPT ![t] = u]
    /\ pc' = [pc EXCEPT ![t] = "set_lock"]
    /\ ret' = [ret EXCEPT ![t] = NoResult]
    /\ UNCHANGED <<manager, lockOwner, strong, handles, setsSinceUnset>>
    /\ UNCHANGED notContextVars

\* line 44: let mut manager = self.manager.lock();
SetLock(t) ==
    /\ pc[t] = "set_lock"
    /\ MutexFree
    /\ lockOwner' = Some(t)
    /\ pc' = [pc EXCEPT ![t] = "set_check"]
    /\ UNCHANGED <<manager, node_ref, caller_uid, strong, ret, handles,
                   strongCount, nodeState, setsSinceUnset>>
    /\ UNCHANGED notContextVars

\* lines 45-47: a node is stored -> EBUSY.
\* (fault variant: the check is missing)
SetBusy_Mut(m) == FALSE
SetBusy(m) == IsSome(m.node)
\* lines 51-56: an identity is recorded and differs from the caller's -> EPERM.
\* (fault variant: the check is missing)
SetDenied_Mut(m, uid) == FALSE
SetDenied(m, uid) == IsSome(m.uid) /\ Unwrap(m.uid) # uid

\* lines 45-56: the checks of set_manager_node in the order the code makes
\* them; Ok means "go on to store".
\* (fault variant: the identity is checked before the stored node)
SetCheckResult_Mut(m, uid) ==
    IF SetDenied(m, uid) THEN Err(EPERM)
    ELSE IF SetBusy(m) THEN Err(EBUSY)
    ELSE Ok
SetCheckResult(m, uid) ==
    IF SetBusy(m) THEN Err(EBUSY)
    ELSE IF SetDenied(m, uid) THEN Err(EPERM)
    ELSE Ok

SetCheck(t) ==
    /\ pc[t] = "set_check"
    /\ LET r == SetCheckResult(manager, caller_uid[t])
       IN IF r.ok
          THEN /\ ret' = ret
               /\ pc' = [pc EXCEPT ![t] = "set_node"]
          ELSE /\ ret' = [ret EXCEPT ![t] = r]
               /\ pc' = [pc EXCEPT ![t] = "set_unlock"]
    /\ UNCHANGED <<manager, lockOwner, node_ref, caller_uid, strong, handles,
                   strongCount, nodeState, setsSinceUnset>>
    /\ UNCHANGED notContextVars

\* line 58: manager.node = Some(node_ref); the value it replaces is dropped.
SetStoreNode(t) ==
    /\ pc[t] = "set_node"
    /\ manager' = [manager EXCEPT !.node = node_ref[t]]
    /\ node_ref' = [node_ref EXCEPT ![t] = None]
    /\ strongCount' = DropCount(manager.node)
    /\ nodeState' = DropState(manager.node)
    /\ setsSinceUnset' = setsSinceUnset + 1
    /\ pc' = [pc EXCEPT ![t] = "set_uid"]
    /\ UNCHANGED <<lockOwner, caller_uid, strong, ret, handles>>
    /\ UNCHANGED notContextVars

\* lines 59-60: manager.uid = Some(caller_uid); Ok(())
SetStoreUid(t) ==
    /\ pc[t] = "set_uid"
    /\ manager' = [manager EXCEPT !.uid = Some(caller_uid[t])]
    /\ ret' = [ret EXCEPT ![t] = Ok]
    /\ pc' = [pc EXCEPT ![t] = "set_unlock"]
    /\ UNCHANGED <<lockOwner, node_ref, caller_uid, strong, handles,
                   strongCount, nodeState, setsSinceUnset>>
    /\ UNCHANGED notContextVars

\* The guard `manager` goes out of scope at every return of the function.
\* (fault variant: an error return leaves without dropping the guard)
SetUnlock_KeepOnError(t) ==
    /\ pc[t] = "set_unlock"
    /\ lockOwner' = IF ret[t].ok THEN None ELSE lockOwner
    /\ pc' = [pc EXCEPT ![t] = "set_ret"]
    /\ UNCHANGED <<manager, node_ref, caller_uid, strong, ret, handles,
                   strongCount, nodeState, setsSinceUnset>>
    /\ UNCHANGED notContextVars
SetUnlock(t) ==
    /\ pc[t] = "set_unlock"
    /\ lockOwner' = None
    /\ pc' = [pc EXCEPT ![t] = "set_ret"]
    /\ UNCHANGED <<manager, node_ref, caller_uid, strong, ret, handles,
                   strongCount, nodeState, setsSinceUnset>>
    /\ UNCHANGED notContextVars

\* The parameter node_ref, if it was not moved into the Manager, is dropped
\* when the function returns.
SetReturn(t) ==
    /\ pc[t] = "set_ret"
    /\ strongCount' = DropCount(node_ref[t])
    /\ nodeState' = DropState(node_ref[t])
    /\ node_ref' = [node_ref EXCEPT ![t] = None]
    /\ caller_uid' = [caller_uid EXCEPT ![t] = 0]
    /\ pc' = [pc EXCEPT ![t] = "idle"]
    /\ UNCHANGED <<manager, lockOwner, strong, ret, handles, setsSinceUnset>>
    /\ UNCHANGED notContextVars

\* A caller enters unset_manager_node().
CallUnset(t) ==
    /\ pc[t] = "idle"
    /\ pc' = [pc EXCEPT ![t] = "unset_lock"]
    /\ ret' = [ret EXCEPT ![t] = NoResult]
    /\ UNCHANGED <<manager, lockOwner, node_ref, caller_uid, strong, handles,
                   strongCount, nodeState, setsSinceUnset>>
    /\ UNCHANGED notContextVars

\* line 64: self.manager.lock()
UnsetLock(t) ==
    /\ pc[t] = "unset_lock"
    /\ MutexFree
    /\ lockOwner' = Some(t)
    /\ pc' = [pc EXCEPT ![t] = "unset_take"]
    /\ UNCHANGED <<manager, node_ref, caller_uid, strong, ret, handles,
                   strongCount, nodeState, setsSinceUnset>>
    /\ UNCHANGED notContextVars

\* line 64: let node_ref = ... .node.take();
\* (fault variants: the reference is copied out and the slot left as it
\* is; the identity is cleared together with the node)
UnsetTake_Copy(t) ==
    /\ pc[t] = "unset_take"
    /\ node_ref' = [node_ref EXCEPT ![t] = manager.node]
    /\ setsSinceUnset' = 0
    /\ pc' = [pc EXCEPT ![t] = "unset_unlock"]
    /\ UNCHANGED <<manager, lockOwner, caller_uid, strong, ret, handles,
                   strongCount, nodeState>>
    /\ UNCHANGED notContextVars
UnsetTake_ClearUid(t) ==
    /\ pc[t] = "unset_take"
    /\ node_ref' = [node_ref EXCEPT ![t] = manager.node]
    /\ manager' = [manager EXCEPT !.node = None, !.uid = None]
    /\ setsSinceUnset' = 0
    /\ pc' = [pc EXCEPT ![t] = "unset_unlock"]
    /\ UNCHANGED <<lockOwner, caller_uid, strong, ret, handles, strongCount,
                   nodeState>>
    /\ UNCHANGED notContextVars
UnsetTake(t) ==
    /\ pc[t] = "unset_take"
    /\ node_ref' = [node_ref EXCEPT ![t] = manager.node]
    /\ manager' = [manager EXCEPT !.node = None]
    /\ setsSinceUnset' = 0
    /\ pc' = [pc EXCEPT ![t] = "unset_unlock"]
    /\ UNCHANGED <<lockOwner, caller_uid, strong, ret, handles, strongCount,
                   nodeState>>
    /\ UNCHANGED notContextVars

\* line 64: the temporary guard is dropped at the end of the statement.
UnsetUnlock(t) ==
    /\ pc[t] = "unset_unlock"
    /\ lockOwner' = None
    /\ pc' = [pc EXCEPT ![t] = "unset_drop"]
    /\ UNCHANGED <<manager, node_ref, caller_uid, strong, ret, handles,
                   strongCount, nodeState, setsSinceUnset>>
    /\ UNCHANGED notContextVars

\* line 65: drop(node_ref); the function returns ().
UnsetDrop(t) ==
    /\ pc[t] = "unset_drop"
    /\ strongCount' = DropCount(node_ref[t])
    /\ nodeState' = DropState(node_ref[t])
    /\ node_ref' = [node_ref EXCEPT ![t] = None]
    /\ ret' = [ret EXCEPT ![t] = Ok]
    /\ pc' = [pc EXCEPT ![t] = "idle"]
    /\ UNCHANGED <<manager, lockOwner, caller_uid, strong, handles,
                   setsSinceUnset>>
    /\ UNCHANGED notContextVars

\* A caller enters get_manager_node(strong); the callers hold fewer than
\* MaxHandles NodeRefs.
CallGet(t) ==
    /\ pc[t] = "idle"
    /\ HandlesHeld(Threads) < MaxHandles
    /\ \E s \in BOOLEAN : strong' = [strong EXCEPT ![t] = s]
    /\ pc' = [pc EXCEPT ![t] = "get_lock"]
    /\ ret' = [ret EXCEPT ![t] = NoResult]
    /\ UNCHANGED <<manager, lockOwner, node_ref, caller_uid, handles,
                   strongCount, nodeState, setsSinceUnset>>
    /\ UNCHANGED notContextVars

\* lines 69-70: self.manager.lock()
\* (fault variant: the Manager is read without taking the mutex)
GetLock_NoWait(t) ==
    /\ pc[t] = "get_lock"
    /\ pc' = [pc EXCEPT ![t] = "get_clone"]
    /\ UNCHANGED <<manager, lockOwner, node_ref, caller_uid, strong, ret,
                   handles, strongCount, nodeState, setsSinceUnset>>
    /\ UNCHANGED notContextVars
GetLock(t) ==
    /\ pc[t] = "get_lock"
    /\ MutexFree
    /\ lockOwner' = Some(t)
    /\ pc' = [pc EXCEPT ![t] = "get_clone"]
    /\ UNCHANGED <<manager, node_ref, caller_uid, strong, ret, handles,
                   strongCount, nodeState, setsSinceUnset>>
    /\ UNCHANGED notContextVars

\* lines 71-74: .node.as_ref().ok_or_else(BinderError::new_dead)?.clone(strong)
\* (fault variant: the node is moved out of the slot instead of cloned)
GetClone_Take(t) ==
    /\ pc[t] = "get_clone"
    /\ IF IsNone(manager.node)
       THEN ret' = [ret EXCEPT ![t] = new_dead]
       ELSE ret' = [ret EXCEPT ![t] = Ok]
    /\ node_ref' = [node_ref EXCEPT ![t] = manager.node]
    /\ manager' = [manager EXCEPT !.node = None]
    /\ pc' = [pc EXCEPT ![t] = "get_unlock"]
    /\ UNCHANGED <<lockOwner, caller_uid, strong, handles, strongCount,
                   nodeState, setsSinceUnset>>
    /\ UNCHANGED notContextVars
GetClone(t) ==
    /\ pc[t] = "get_clone"
    /\ IF IsNone(manager.node)
       THEN /\ ret' = [ret EXCEPT ![t] = new_dead]
            /\ UNCHANGED <<node_ref, strongCount>>
       ELSE /\ ret' = [ret EXCEPT ![t] = Ok]
            /\ node_ref' = [node_ref EXCEPT ![t] =
                               Some(NodeRef(Unwrap(manager.node).node, strong[t]))]
            /\ strongCount' = CloneCount(Unwrap(manager.node), strong[t])
    /\ pc' = [pc EXCEPT ![t] = "get_unlock"]
    /\ UNCHANGED <<manager, lockOwner, caller_uid, strong, handles, nodeState,
                   setsSinceUnset>>
    /\ UNCHANGED notContextVars

\* line 75: the temporary guard is dropped as the function returns; the
\* caller receives the NodeRef.
GetUnlock(t) ==
    /\ pc[t] = "get_unlock"
    /\ lockOwner' = None
    /\ handles' = [handles EXCEPT ![t] = @ \o node_ref[t]]
    /\ node_ref' = [node_ref EXCEPT ![t] = None]
    /\ strong' = [strong EXCEPT ![t] = FALSE]
    /\ pc' = [pc EXCEPT ![t] = "idle"]
    /\ UNCHANGED <<manager, caller_uid, ret, strongCount, nodeState,
                   setsSinceUnset>>
    /\ UNCHANGED notContextVars

\* A caller drops a NodeRef it got from get_manager_node.
DropHandle(t) ==
    /\ pc[t] = "idle"
    /\ handles[t] # <<>>
    /\ strongCount' = DropCount(Some(Head(handles[t])))
    /\ nodeState' = DropState(Some(Head(handles[t])))
    /\ handles' = [handles EXCEPT ![t] = Tail(@)]
    /\ UNCHANGED <<manager, lockOwner, pc, node_ref, caller_uid, strong, ret,
                   setsSinceUnset>>
    /\ UNCHANGED notContextVars

(***************************************************************************)
(* Compatibility strings and match-table entries (bindings::of_device_id). *)
(*                                                                         *)
(* A CStr is modelled by its content, the bytes before the terminating    *)
(* NUL; an entry by its three byte arrays and its data pointer.            *)
(***************************************************************************)
BufLen == 128
NameLen == 32
Zeros(n) == [i \in 1..n |-> 0]
Run(b, n) == [i \in 1..n |-> b]

\* The compatibility strings of the model: the empty string, two short
\* ones, and the runs of one letter that fill the entry buffer up to its
\* last byte and up to its end.
ShortStrings == {<<>>, <<97>>, <<98, 97>>}
LongStrings == {Run(98, n) : n \in (BufLen - 1)..BufLen}
CompatStrings == ShortStrings \cup LongStrings

\* types::CStr wraps a str that ends with the NUL: its length and its bytes
\* include the terminator.
CStr_len(c) == Len(c) + 1
CStr_as_bytes(c) == Append(c, 0)

zeroed_of_device_id ==
    [name |-> Zeros(NameLen), type_ |-> Zeros(NameLen),
     compatible |-> Zeros(BufLen), data |-> 0]

\* buf[..bytes.len()].copy_from_slice(bytes)
copy_from_slice(buf, bytes) ==
    [i \in 1..Len(buf) |-> IF i <= Len(bytes) THEN bytes[i] ELSE buf[i]]

(***************************************************************************)
(* rust/kernel/platform_driver.rs: Registration                            *)
(***************************************************************************)
\* The calls Registration makes into the environment.
platform_driver_register(rc) == [call |-> "__platform_driver_register", rc |-> rc]
platform_driver_unregister == [call |-> "platform_driver_unregister", rc |-> 0]

TooLong_Never(c) == FALSE
TooLong(c) == CStr_len(c) > BufLen

new_of_device_id(c) ==
    IF TooLong(c)
    THEN [ok |-> FALSE, errno |-> EINVAL, id |-> zeroed_of_device_id]
    ELSE [ok |-> TRUE, errno |-> 0,
          id |-> [zeroed_of_device_id EXCEPT
                    !.compatible = copy_from_slice(Zeros(BufLen), CStr_as_bytes(c))]]

\* Registration::default()
DefaultPdrv == [name |-> "null", of_match_table |-> "null",
                probe |-> "None", remove |-> "None"]
DefaultOfTable == <<zeroed_of_device_id, zeroed_of_device_id>>

AlreadyRegistered_Never(r) == FALSE
AlreadyRegistered(r) == r

RegisterRefused_Never(rc) == FALSE
RegisterRefused(rc) == rc < 0

StoreEntry_Sentinel(tbl, id) == [tbl EXCEPT ![2] = id]
StoreEntry(tbl, id) == [tbl EXCEPT ![1] = id]

\* register, as the values of the fields, the call record and the result
\* when it returns.
PdRegisterOutcome(of_id, rc) ==
    LET same(res) == [registered |-> registered, of_table |-> of_table,
                      pdrv |-> pdrv, log |-> pdLog, result |-> res]
        id == new_of_device_id(of_id)
        tbl == StoreEntry(of_table, id.id)
        drv == [name |-> "name", of_match_table |-> "of_table",
                probe |-> "probe_callback", remove |-> "remove_callback"]
        log == Append(pdLog, platform_driver_register(rc))
    IN  IF AlreadyRegistered(registered) THEN same(Err(EINVAL))
        ELSE IF ~id.ok THEN same(Err(id.errno))
        ELSE IF RegisterRefused(rc)
             THEN [registered |-> FALSE, of_table |-> tbl, pdrv |-> drv,
                   log |-> log, result |-> from_kernel_errno(rc)]
             ELSE [registered |-> TRUE, of_table |-> tbl, pdrv |-> drv,
                   log |-> log, result |-> Ok]

PdRegister ==
    /\ ~pdDropped
    /\ pdCalls < MaxRegs
    /\ \E i \in 1..Len(compatibles), rc \in {0} \cup EnvErrnos :
         LET out == PdRegisterOutcome(compatibles[i], rc)
         IN  /\ registered' = out.registered
             /\ of_table' = out.of_table
             /\ pdrv' = out.pdrv
             /\ pdLog' = out.log
             /\ pdResult' = out.result
    /\ pdCalls' = pdCalls + 1
    /\ UNCHANGED <<pdDropped, deviceVars, platdevVars, notPlatformVars>>

(***************************************************************************)
(* Platform devices: the probe and remove callbacks.                       *)
(*                                                                         *)
(* DrvData objects are numbered in the order probe creates them.  An       *)
(* object is "boxed" while a Rust value owns it, "raw" while only its      *)
(* pointer exists, and "dropped" once its owner has been dropped.          *)
(***************************************************************************)
Devices == {1, 2}
DrvObjects == 1..MaxProbes

\* PointerWrapper::into_pointer / from_pointer: the address of the object
\* and the object at an address.
into_pointer(k) == 4096 + 64 * k
from_pointer(p) == (p - 4096) \div 64
IntoPointerState(st) == IF st = "boxed" THEN "raw" ELSE "invalid"
FromPointerState(st) == IF st = "raw" THEN "boxed" ELSE "aliased"
DropBoxState(st) == IF st = "boxed" THEN "dropped" ELSE "double_free"

\* The device state as one record, for the callbacks to transform.
DeviceState ==
    [drvdata |-> drvdata, bound |-> bound, drvState |-> drvState,
     intoCount |-> intoCount, fromCount |-> fromCount, probeRet |-> probeRet,
     removeArg |-> removeArg, cbRet |-> cbRet, probeCall |-> probeCall]

ProbeStored_Stale(d, k) == IF k > 1 THEN into_pointer(k - 1) ELSE 0
ProbeStored(d, k) == into_pointer(k)

\* probe_callback on device d when T::probe returns a new object k
\* (err = 0) or fails with err.
probe_callback(st, d, k, err) ==
    IF err # 0
    THEN [st EXCEPT !.cbRet[d] = to_kernel_errno(Err(err)),
                    !.probeCall = ProbeCall(d, err)]
    ELSE [st EXCEPT !.drvState[k] = IntoPointerState("boxed"),
                    !.intoCount[k] = @ + 1,
                    !.probeRet[d] = k,
                    !.drvdata[d] = ProbeStored(d, k),
                    !.cbRet[d] = 0,
                    !.probeCall = ProbeCall(d, 0)]

RemoveLoaded_Null(st, d) == 0
RemoveLoaded(st, d) == st.drvdata[d]

\* remove_callback on device d when T::remove returns rc, having consumed
\* the driver data.
remove_callback(st, d, rc) ==
    LET ptr == RemoveLoaded(st, d)
        k == from_pointer(ptr)
    IN  IF k \in DrvObjects
        THEN [st EXCEPT !.drvState[k] = DropBoxState(FromPointerState(@)),
                        !.fromCount[k] = @ + 1,
                        !.removeArg[d] = k,
                        !.cbRet[d] = rc]
        ELSE [st EXCEPT !.removeArg[d] = 0, !.cbRet[d] = rc]

SetDeviceState(st) ==
    /\ drvdata' = st.drvdata
    /\ bound' = st.bound
    /\ drvState' = st.drvState
    /\ intoCount' = st.intoCount
    /\ fromCount' = st.fromCount
    /\ probeRet' = st.probeRet
    /\ removeArg' = st.removeArg
    /\ cbRet' = st.cbRet
    /\ probeCall' = st.probeCall

\* The environment probes an unbound device while the driver is registered;
\* the device is bound when the callback returns 0.
ProbeCallback(d) ==
    /\ registered /\ ~pdDropped
    /\ bound[d] = "unbound"
    /\ probes < MaxProbes
    /\ \E err \in {0} \cup ProbeErrnos :
         LET st == probe_callback(DeviceState, d, probes + 1, err)
         IN  SetDeviceState([st EXCEPT !.bound[d] =
                               IF st.cbRet[d] = 0 THEN "platform_driver" ELSE "unbound"])
    /\ probes' = probes + 1
    /\ UNCHANGED <<platformVars, platdevVars, notPlatformVars>>

\* The environment removes a bound device: once, after a successful probe.
RemoveCallback(d) ==
    /\ bound[d] = "platform_driver"
    /\ \E rc \in {0} \cup EnvErrnos :
         LET st == remove_callback(DeviceState, d, rc)
         IN  SetDeviceState([st EXCEPT !.bound[d] = "unbound"])
    /\ UNCHANGED <<probes, platformVars, platdevVars, notPlatformVars>>

\* platform_driver_unregister detaches the driver from the devices it is
\* still bound to, calling remove on each.
RECURSIVE Detach(_, _)
Detach(st, ds) ==
    IF ds = {} THEN st
    ELSE LET d == CHOOSE x \in ds : \A y \in ds : x <= y
             st1 == IF st.bound[d] = "platform_driver"
                    THEN [remove_callback(st, d, 0) EXCEPT !.bound[d] = "unbound"]
                    ELSE st
         IN  Detach(st1, ds \ {d})

ShouldUnregister_Always(r) == TRUE
ShouldUnregister(r) == r

\* Drop for Registration.
PdDrop ==
    /\ ~pdDropped
    /\ pdDropped' = TRUE
    /\ IF ShouldUnregister(registered)
       THEN /\ pdLog' = Append(pdLog, platform_driver_unregister)
            /\ SetDeviceState(Detach(DeviceState, Devices))
       ELSE UNCHANGED <<pdLog, drvdata, bound, drvState, intoCount, fromCount,
                        probeRet, removeArg, cbRet, probeCall>>
    /\ UNCHANGED <<registered, of_table, pdrv, pdCalls, pdResult, probes,
                   platdevVars, notPlatformVars>>

(***************************************************************************)
(* rust/kernel/platdev.rs: Registration and its callbacks                  *)
(*                                                                         *)
(* Every call of Registration::new that is given a match table is given a  *)
(* new one; the tables are numbered by the call they were passed to.       *)
(***************************************************************************)
TableObjects == 1..MaxRegs
drop_table(k) == [call |-> "drop(OfMatchTable)", rc |-> k]

PlatdevStored_Stale(d, k) == IF k > 1 THEN into_pointer(k - 1) ELSE 0
PlatdevStored(d, k) == into_pointer(k)

\* probe_callback on device d when P::probe returns a new object k
\* (err = 0) or fails with err.
platdev_probe_callback(st, d, k, err) ==
    IF err # 0
    THEN [st EXCEPT !.cbRet[d] = from_kernel_result_helper(Err(err)),
                    !.probeCall = ProbeCall(d, err)]
    ELSE [st EXCEPT !.drvState[k] = IntoPointerState("boxed"),
                    !.intoCount[k] = @ + 1,
                    !.probeRet[d] = k,
                    !.drvdata[d] = PlatdevStored(d, k),
                    !.cbRet[d] = from_kernel_result_helper(OkValue(0)),
                    !.probeCall = ProbeCall(d, 0)]

\* remove_callback on device d when P::remove returns rc, having consumed
\* the driver data.
platdev_remove_callback(st, d, rc) ==
    LET ptr == st.drvdata[d]
        k == from_pointer(ptr)
    IN  IF k \in DrvObjects
        THEN [st EXCEPT !.drvState[k] = DropBoxState(FromPointerState(@)),
                        !.fromCount[k] = @ + 1,
                        !.removeArg[d] = k,
                        !.cbRet[d] = rc]
        ELSE [st EXCEPT !.removeArg[d] = 0, !.cbRet[d] = rc]

\* Registration::new given the table tbl (None, or Some(k) for table object
\* k), when Box::try_new succeeds or not and the environment returns rc.
PlatdevNewOutcome(tbl, boxOk, rc) ==
    LET k == Unwrap(tbl)
        moved == IF IsSome(tbl) THEN [tblState EXCEPT ![k] = "boxed"] ELSE tblState
        raw == IF IsSome(tbl) THEN [tblState EXCEPT ![k] = IntoPointerState("boxed")]
               ELSE tblState
        ofTable == IF IsSome(tbl) THEN Some(into_pointer(k)) ELSE None
        log == Append(pdevLog, platform_driver_register(rc))
    IN  IF ~boxOk
        THEN [reg |-> "none", of_table |-> None, log |-> pdevLog,
              tbl |-> IF IsSome(tbl) THEN [moved EXCEPT ![k] = DropBoxState(@)] ELSE moved,
              result |-> Err(ENOMEM)]
        ELSE IF rc < 0
        THEN [reg |-> "none", of_table |-> None, log |-> log, tbl |-> raw,
              result |-> from_kernel_errno(rc)]
        ELSE [reg |-> "registered", of_table |-> ofTable, log |-> log, tbl |-> raw,
              result |-> Ok]

PlatdevNew ==
    /\ pdevReg = "none"
    /\ pdevCalls < MaxRegs
    /\ \E tbl \in {None, Some(pdevCalls + 1)}, boxOk \in BOOLEAN,
          rc \in {0} \cup EnvErrnos :
         LET out == PlatdevNewOutcome(tbl, boxOk, rc)
         IN  /\ pdevReg' = out.reg
             /\ pdevOfTable' = out.of_table
             /\ pdevLog' = out.log
             /\ tblState' = out.tbl
             /\ pdevResult' = out.result
    /\ pdevCalls' = pdevCalls + 1
    /\ UNCHANGED <<platformVars, deviceVars, notPlatformVars>>

PlatdevProbeCallback(d) ==
    /\ pdevReg = "registered"
    /\ bound[d] = "unbound"
    /\ probes < MaxProbes
    /\ \E err \in {0} \cup ProbeErrnos :
         LET st == platdev_probe_callback(DeviceState, d, probes + 1, err)
         IN  SetDeviceState([st EXCEPT !.bound[d] =
                               IF st.cbRet[d] = 0 THEN "platdev" ELSE "unbound"])
    /\ probes' = probes + 1
    /\ UNCHANGED <<platformVars, platdevVars, notPlatformVars>>

PlatdevRemoveCallback(d) ==
    /\ bound[d] = "platdev"
    /\ \E rc \in {0} \cup EnvErrnos :
         LET st == platdev_remove_callback(DeviceState, d, rc)
         IN  SetDeviceState([st EXCEPT !.bound[d] = "unbound"])
    /\ UNCHANGED <<probes, platformVars, platdevVars, notPlatformVars>>

RECURSIVE PlatdevDetach(_, _)
PlatdevDetach(st, ds) ==
    IF ds = {} THEN st
    ELSE LET d == CHOOSE x \in ds : \A y \in ds : x <= y
             st1 == IF st.bound[d] = "platdev"
                    THEN [platdev_remove_callback(st, d, 0) EXCEPT !.bound[d] = "unbound"]
                    ELSE st
         IN  PlatdevDetach(st1, ds \ {d})

\* The calls of Drop for Registration, in order.
PlatdevDropCalls_TableFirst(ofTable) ==
    IF IsSome(ofTable)
    THEN <<drop_table(from_pointer(Unwrap(ofTable))), platform_driver_unregister>>
    ELSE <<platform_driver_unregister>>
PlatdevDropCalls(ofTable) ==
    IF IsSome(ofTable)
    THEN <<platform_driver_unregister, drop_table(from_pointer(Unwrap(ofTable)))>>
    ELSE <<platform_driver_unregister>>

\* Drop for Registration.
PlatdevDrop ==
    /\ pdevReg = "registered"
    /\ pdevReg' = "dropped"
    /\ pdevLog' = pdevLog \o PlatdevDropCalls(pdevOfTable)
    /\ tblState' = IF IsSome(pdevOfTable)
                   THEN [tblState EXCEPT ![from_pointer(Unwrap(pdevOfTable))] =
                            DropBoxState(FromPointerState(@))]
                   ELSE tblState
    /\ SetDeviceState(PlatdevDetach(DeviceState, Devices))
    /\ UNCHANGED <<pdevOfTable, pdevCalls, pdevResult, probes, platformVars,
                   notPlatformVars>>

(***************************************************************************)
(* rust/kernel/of.rs: ConstOfMatchTable<N>                                 *)
(***************************************************************************)
\* str::CStr::as_bytes_with_nul
as_bytes_with_nul(c) == Append(c, 0)

\* The copy loop of new_of_device_id, run to its end: it writes
\* id.compatible[i] = bytes[i] for i = 0, 1, ... and panics at the first
\* index outside id.compatible, having written every index before it.
CopyLoop(id, bytes) ==
    [panic |-> Len(bytes) > Len(id.compatible),
     id |-> [id EXCEPT !.compatible =
               [i \in 1..Len(@) |-> IF i <= Len(bytes) THEN bytes[i] ELSE @[i]]]]

ConstOfMatchTable_new_of_device_id(c) ==
    CopyLoop(zeroed_of_device_id, as_bytes_with_nul(c))

EntrySlot_Next(i) == i + 2
EntrySlot(i) == i + 1

\* The loop of new_const from index i over the array cs.
RECURSIVE TableLoop(_, _, _)
TableLoop(tbl, cs, i) ==
    IF i = Len(cs) THEN [panic |-> FALSE, table |-> tbl]
    ELSE LET e == ConstOfMatchTable_new_of_device_id(cs[i + 1])
         IN  IF e.panic THEN [panic |-> TRUE, table |-> tbl]
             ELSE TableLoop([tbl EXCEPT ![EntrySlot(i)] = e.id], cs, i + 1)

new_const(cs) ==
    LET r == TableLoop([i \in 1..Len(cs) |-> zeroed_of_device_id], cs, 0)
    IN  [panic |-> r.panic,
         value |-> [table |-> r.table, sentinel |-> zeroed_of_device_id]]

NotCalled == [called |-> FALSE, panic |-> FALSE, array |-> <<>>]

\* ConstOfMatchTable::new_const(compatibles)
NewConst ==
    /\ built = "no"
    /\ LET r == new_const(compatibles)
       IN  IF r.panic
           THEN built' = "aborted" /\ constTable' = None
           ELSE built' = "yes" /\ constTable' = Some(r.value)
    /\ UNCHANGED <<asPtr, compatibles, platformVars, deviceVars, platdevVars,
                   chrdevVars, contextVars, regmapVars, rngVars>>

\* Deref::deref followed by OfMatchTable::as_ptr: the C array that starts
\* at table[0] and, the struct being repr(C), runs on into the sentinel.
\* Indexing table[0] of an empty table panics.
AsPtr ==
    /\ built = "yes"
    /\ ~asPtr.called
    /\ LET t == Unwrap(constTable)
       IN  asPtr' = IF Len(t.table) = 0
                    THEN [called |-> TRUE, panic |-> TRUE, array |-> <<>>]
                    ELSE [called |-> TRUE, panic |-> FALSE,
                          array |-> Append(t.table, t.sentinel)]
    /\ UNCHANGED <<constTable, built, compatibles, platformVars, deviceVars,
                   platdevVars, chrdevVars, contextVars, regmapVars, rngVars>>

(***************************************************************************)
(* rust/kernel/regmap.rs: RegmapConfig and Regmap                          *)
(***************************************************************************)
\* `x as i32` of a u32.
as_i32(x) == IF x > 2147483647 THEN x - 2147483647 - 2147483647 - 2 ELSE x

\* bindings::regmap_config::default(): every field zero.
DefaultRegmapConfig ==
    [reg_bits |-> 0, val_bits |-> 0, disable_locking |-> FALSE,
     reg_stride |-> 0, max_register |-> 0]

\* The calls regmap.rs makes into the environment.  rc is what the call
\* returned: a return code, or a pointer; val is the value a read produced.
devm_platform_ioremap_resource(index, p) ==
    [call |-> "devm_platform_ioremap_resource", reg |-> index, val |-> 0,
     config |-> DefaultRegmapConfig, rc |-> p]
devm_regmap_init_mmio(regs, config, p) ==
    [call |-> "devm_regmap_init_mmio", reg |-> regs, val |-> 0,
     config |-> config, rc |-> p]
regmap_write(reg, v, res) ==
    [call |-> "regmap_write", reg |-> reg, val |-> v,
     config |-> DefaultRegmapConfig, rc |-> res]
regmap_read(reg, v, res) ==
    [call |-> "regmap_read", reg |-> reg, val |-> v,
     config |-> DefaultRegmapConfig, rc |-> res]

\* error::ptr_err_check: an error pointer carries a negated errno in the
\* last page of the address space.
ptr_err_check(p) == IF p < 0 /\ p >= -MAX_ERRNO THEN ErrValue(p) ELSE OkValue(p)

RegmapConfig_new(reg_bits, val_bits) ==
    [reg_bits |-> as_i32(reg_bits), val_bits |-> as_i32(val_bits),
     reg_stride |-> None, max_register |-> None]
reg_stride(self, stride) == [self EXCEPT !.reg_stride = Some(stride)]
max_register(self, maxreg) == [self EXCEPT !.max_register = Some(maxreg)]

build_Unlocked(self) ==
    [reg_bits |-> self.reg_bits, val_bits |-> self.val_bits,
     disable_locking |-> IsNone(self.reg_stride),
     reg_stride |-> IF IsSome(self.reg_stride) THEN Unwrap(self.reg_stride) ELSE 0,
     max_register |-> IF IsSome(self.max_register) THEN Unwrap(self.max_register) ELSE 0]
build(self) ==
    [reg_bits |-> self.reg_bits, val_bits |-> self.val_bits,
     disable_locking |-> FALSE,
     reg_stride |-> IF IsSome(self.reg_stride) THEN Unwrap(self.reg_stride) ELSE 0,
     max_register |-> IF IsSome(self.max_register) THEN Unwrap(self.max_register) ELSE 0]

MappingFailed_Never(iomem) == FALSE
MappingFailed(iomem) == ~iomem.ok

\* init_mmio_platform_resource with configuration cfg, when the mapping
\* call returns the pointer p and the register-map call the pointer q: the
\* call record and the result.
init_mmio_platform_resource(log, index, cfg, p, q) ==
    LET iomem == ptr_err_check(p)
        log1 == Append(log, devm_platform_ioremap_resource(index, p))
        log2 == Append(log1, devm_regmap_init_mmio(iomem.val, build(cfg), q))
    IN  IF MappingFailed(iomem)
        THEN [log |-> log1, result |-> ErrValue(iomem.errno)]
        ELSE [log |-> log2, result |-> ptr_err_check(q)]

RegmapFailed_Positive(res) == res > 0
RegmapFailed(res) == res # 0

\* Regmap::write and Regmap::read when the environment returns res (and, for
\* a read, stores v): the call record and the result.
Regmap_write(log, reg, v, res) ==
    [log |-> Append(log, regmap_write(reg, v, res)),
     result |-> IF RegmapFailed(res) THEN ErrValue(res) ELSE OkValue(0)]
Regmap_read(log, reg, v, res) ==
    [log |-> Append(log, regmap_read(reg, v, res)),
     result |-> IF RegmapFailed(res) THEN ErrValue(res) ELSE OkValue(v)]

\* Inputs: arguments of the builder, and what the environment returns.
RegBits == {8, 32}
ValBits == {32}
Strides == {4}
MaxRegisters == {8}
MappingReturns == {61440, ENOMEM, EBUSY}
RegmapReturns == {53248, ENOMEM}
Regs == {4, 8}
WriteValues == {1}
ReadValues == {0, 16777216}
RegmapCodes == {0, ENOMEM, 1}

ConfigNew ==
    /\ IsNone(regmap)
    /\ \E rb \in RegBits, vb \in ValBits : rmCfg' = Some(RegmapConfig_new(rb, vb))
    /\ UNCHANGED <<regmap, rmLog, rmCalls, rmResult, rngVars, notRegmapVars>>

ConfigRegStride ==
    /\ IsSome(rmCfg) /\ IsNone(regmap)
    /\ \E st \in Strides : rmCfg' = Some(reg_stride(Unwrap(rmCfg), st))
    /\ UNCHANGED <<regmap, rmLog, rmCalls, rmResult, rngVars, notRegmapVars>>

ConfigMaxRegister ==
    /\ IsSome(rmCfg) /\ IsNone(regmap)
    /\ \E mr \in MaxRegisters : rmCfg' = Some(max_register(Unwrap(rmCfg), mr))
    /\ UNCHANGED <<regmap, rmLog, rmCalls, rmResult, rngVars, notRegmapVars>>

InitMmio ==
    /\ IsSome(rmCfg) /\ IsNone(regmap)
    /\ rmCalls < MaxRegmapOps
    /\ \E p \in MappingReturns, q \in RegmapReturns :
         LET out == init_mmio_platform_resource(rmLog, 0, Unwrap(rmCfg), p, q)
         IN  /\ rmLog' = out.log
             /\ rmResult' = out.result
             /\ regmap' = IF out.result.ok THEN Some(out.result.val) ELSE None
    /\ rmCalls' = rmCalls + 1
    /\ UNCHANGED <<rmCfg, rngVars, notRegmapVars>>

RegmapWrite ==
    /\ IsSome(regmap)
    /\ rmCalls < MaxRegmapOps
    /\ \E reg \in Regs, v \in WriteValues, res \in RegmapCodes :
         LET out == Regmap_write(rmLog, reg, v, res)
         IN  rmLog' = out.log /\ rmResult' = out.result
    /\ rmCalls' = rmCalls + 1
    /\ UNCHANGED <<rmCfg, regmap, rngVars, notRegmapVars>>

RegmapRead ==
    /\ IsSome(regmap)
    /\ rmCalls < MaxRegmapOps
    /\ \E reg \in Regs, v \in ReadValues, res \in RegmapCodes :
         LET out == Regmap_read(rmLog, reg, v, res)
         IN  rmLog' = out.log /\ rmResult' = out.result
    /\ rmCalls' = rmCalls + 1
    /\ UNCHANGED <<rmCfg, regmap, rngVars, notRegmapVars>>

(***************************************************************************)
(* drivers/char/hw_random/bcm2835_rng_rust.rs (and the identical sample    *)
(* samples/rust/rust_platdev.rs): the RNG driver                           *)
(***************************************************************************)
RNG_CTRL == 0
RNG_STATUS == 4
RNG_DATA == 8
RNG_WARMUP_COUNT == 262144
RNG_RBGEN == 1

\* `x >> n` of a u32.
shr(x, n) == x \div (2 ^ n)

NumWords_Unshifted(status) == status
NumWords(status) == shr(status, 24)

\* The bytes of a u32 as the writer copies them (little-endian target).
U32Bytes(v) == [i \in 1..4 |-> shr(v, 8 * (i - 1)) % 256]

\* IoBufferWriter over a buffer of len bytes: is_empty, and write of a byte
\* string of which the environment copies the first `copied` bytes.
IoBufferWriter_is_empty(len) == len = 0
IoBufferWriter_write(buf, len, bytes, copied) ==
    IF Len(bytes) > len
    THEN [buf |-> buf, result |-> ErrValue(EFAULT)]
    ELSE IF copied < Len(bytes)
    THEN [buf |-> buf \o SubSeq(bytes, 1, copied), result |-> ErrValue(EFAULT)]
    ELSE [buf |-> buf \o bytes, result |-> OkValue(0)]

\* RngDriver::probe when the environment answers the mapping with p, the
\* register-map initialisation with q, the two writes with w1 and w2, and
\* the allocation of the shared state and the registration of the misc
\* device with a1 and a2 (0 or an errno).
RngDriver_probe(log, p, q, w1, w2, a1, a2) ==
    LET cfg == max_register(reg_stride(RegmapConfig_new(32, 32), 4), RNG_DATA)
        rm == init_mmio_platform_resource(log, 0, cfg, p, q)
        wr1 == Regmap_write(rm.log, RNG_STATUS, RNG_WARMUP_COUNT, w1)
        wr2 == Regmap_write(wr1.log, RNG_CTRL, RNG_RBGEN, w2)
    IN  IF ~rm.result.ok THEN [log |-> rm.log, result |-> ErrValue(rm.result.errno)]
        ELSE IF ~wr1.result.ok THEN [log |-> wr1.log, result |-> ErrValue(wr1.result.errno)]
        ELSE IF ~wr2.result.ok THEN [log |-> wr2.log, result |-> ErrValue(wr2.result.errno)]
        ELSE IF a1 # 0 THEN [log |-> wr2.log, result |-> ErrValue(a1)]
        ELSE IF a2 # 0 THEN [log |-> wr2.log, result |-> ErrValue(a2)]
        ELSE [log |-> wr2.log, result |-> OkValue(rm.result.val)]

\* RngDevice::read on a buffer of len bytes at offset, when the environment
\* answers the status read with (sRes, sVal), the data read with
\* (dRes, dVal) and copies `copied` bytes to the buffer.
RngDevice_read(log, len, offset, sRes, sVal, dRes, dVal, copied) ==
    LET st == Regmap_read(log, RNG_STATUS, sVal, sRes)
        dt == Regmap_read(st.log, RNG_DATA, dVal, dRes)
        wr == IoBufferWriter_write(<<>>, len, U32Bytes(dt.result.val), copied)
    IN  IF IoBufferWriter_is_empty(len) \/ offset # 0
        THEN [log |-> log, buf |-> <<>>, result |-> OkValue(0)]
        ELSE IF ~st.result.ok
        THEN [log |-> st.log, buf |-> <<>>, result |-> ErrValue(st.result.errno)]
        ELSE IF NumWords(st.result.val) = 0
        THEN [log |-> st.log, buf |-> <<>>, result |-> OkValue(0)]
        ELSE IF ~dt.result.ok
        THEN [log |-> dt.log, buf |-> <<>>, result |-> ErrValue(dt.result.errno)]
        ELSE IF ~wr.result.ok
        THEN [log |-> dt.log, buf |-> wr.buf, result |-> ErrValue(wr.result.errno)]
        ELSE [log |-> dt.log, buf |-> wr.buf, result |-> OkValue(4)]

\* Inputs of the RNG driver.
BufferLens == {0, 2, 4}
Offsets == {0, 4}
StatusValues == {0, 16777215, 16777216}
DataValues == {255, 67305985}
ReadCodes == {0, ENOMEM}
AllocCodes == {0, ENOMEM}
CopiedBytes == {2, 4}

RngProbe ==
    /\ IsNone(shared)
    /\ rmCalls < MaxRngProbes
    /\ \E p \in MappingReturns, q \in RegmapReturns, w1, w2 \in ReadCodes,
          a1, a2 \in AllocCodes :
         LET out == RngDriver_probe(rmLog, p, q, w1, w2, a1, a2)
         IN  /\ rmLog' = out.log
             /\ rngResult' = out.result
             /\ shared' = IF out.result.ok THEN Some(out.result.val) ELSE None
             /\ regmap' = IF out.result.ok THEN Some(out.result.val) ELSE None
    /\ rmCalls' = rmCalls + 1
    /\ UNCHANGED <<rmCfg, rmResult, outBuf, rngCall, rngReads, notRegmapVars>>

RngRead ==
    /\ IsSome(shared)
    /\ rngReads < MaxReads
    /\ \E len \in BufferLens, offset \in Offsets, sRes, dRes \in ReadCodes,
          sVal \in StatusValues, dVal \in DataValues, copied \in CopiedBytes :
         LET out == RngDevice_read(rmLog, len, offset, sRes, sVal, dRes, dVal, copied)
         IN  /\ rmLog' = out.log
             /\ outBuf' = out.buf
             /\ rngResult' = out.result
             /\ rngCall' = [len |-> len, offset |-> offset]
    /\ rngReads' = rngReads + 1
    /\ UNCHANGED <<rmCfg, regmap, rmCalls, rmResult, shared, notRegmapVars>>

\* Registration::new (chrdev, lines 106-117) and Context::new (lines 28-41).
InitChrdev ==
    /\ N \in 1..MaxN
    /\ minors_start \in MinorsStarts
    /\ inner = None
    /\ envLog = <<>>
    /\ nextCdev = 1
    /\ calls = 0
    /\ result = NoResult
    /\ dropped = FALSE
    /\ manager = NewManager
    /\ lockOwner = None
    /\ pc = [t \in Threads |-> "idle"]
    /\ node_ref = [t \in Threads |-> None]
    /\ caller_uid = [t \in Threads |-> 0]
    /\ strong = [t \in Threads |-> FALSE]
    /\ ret = [t \in Threads |-> NoResult]
    /\ handles = [t \in Threads |-> <<>>]
    /\ strongCount = [n \in Nodes |-> 0]
    /\ nodeState = [n \in Nodes |-> "unborn"]
    /\ setsSinceUnset = 0
    /\ compatibles = <<>>
    /\ registered = FALSE
    /\ of_table = DefaultOfTable
    /\ pdrv = DefaultPdrv
    /\ pdLog = <<>>
    /\ pdCalls = 0
    /\ pdResult = NoResult
    /\ pdDropped = FALSE
    /\ drvdata = [d \in Devices |-> 0]
    /\ bound = [d \in Devices |-> "unbound"]
    /\ drvState = [k \in DrvObjects |-> "unborn"]
    /\ intoCount = [k \in DrvObjects |-> 0]
    /\ fromCount = [k \in DrvObjects |-> 0]
    /\ probeRet = [d \in Devices |-> 0]
    /\ removeArg = [d \in Devices |-> 0]
    /\ cbRet = [d \in Devices |-> 0]
    /\ probeCall = NoProbe
    /\ probes = 0
    /\ pdevReg = "none"
    /\ pdevOfTable = None
    /\ tblState = [k \in TableObjects |-> "unborn"]
    /\ pdevLog = <<>>
    /\ pdevCalls = 0
    /\ pdevResult = NoResult
    /\ constTable = None
    /\ built = "no"
    /\ asPtr = NotCalled
    /\ rmCfg = None
    /\ regmap = None
    /\ rmLog = <<>>
    /\ rmCalls = 0
    /\ rmResult = NoValue
    /\ shared = None
    /\ outBuf = <<>>
    /\ rngResult = NoValue
    /\ rngReads = 0
    /\ rngCall = NoCall

NextChrdev == Register \/ DropRegistration

SpecChrdev == InitChrdev /\ [][NextChrdev]_vars

\* The Context alone: the chrdev Registration is of capacity 1 and unused.
InitContext ==
    /\ N = 1
    /\ minors_start = 0
    /\ inner = None
    /\ envLog = <<>>
    /\ nextCdev = 1
    /\ calls = 0
    /\ result = NoResult
    /\ dropped = FALSE
    /\ manager = NewManager
    /\ lockOwner = None
    /\ pc = [t \in Threads |-> "idle"]
    /\ node_ref = [t \in Threads |-> None]
    /\ caller_uid = [t \in Threads |-> 0]
    /\ strong = [t \in Threads |-> FALSE]
    /\ ret = [t \in Threads |-> NoResult]
    /\ handles = [t \in Threads |-> <<>>]
    /\ strongCount = [n \in Nodes |-> 0]
    /\ nodeState = [n \in Nodes |-> "unborn"]
    /\ setsSinceUnset = 0
    /\ compatibles = <<>>
    /\ registered = FALSE
    /\ of_table = DefaultOfTable
    /\ pdrv = DefaultPdrv
    /\ pdLog = <<>>
    /\ pdCalls = 0
    /\ pdResult = NoResult
    /\ pdDropped = FALSE
    /\ drvdata = [d \in Devices |-> 0]
    /\ bound = [d \in Devices |-> "unbound"]
    /\ drvState = [k \in DrvObjects |-> "unborn"]
    /\ intoCount = [k \in DrvObjects |-> 0]
    /\ fromCount = [k \in DrvObjects |-> 0]
    /\ probeRet = [d \in Devices |-> 0]
    /\ removeArg = [d \in Devices |-> 0]
    /\ cbRet = [d \in Devices |-> 0]
    /\ probeCall = NoProbe
    /\ probes = 0
    /\ pdevReg = "none"
    /\ pdevOfTable = None
    /\ tblState = [k \in TableObjects |-> "unborn"]
    /\ pdevLog = <<>>
    /\ pdevCalls = 0
    /\ pdevResult = NoResult
    /\ constTable = None
    /\ built = "no"
    /\ asPtr = NotCalled
    /\ rmCfg = None
    /\ regmap = None
    /\ rmLog = <<>>
    /\ rmCalls = 0
    /\ rmResult = NoValue
    /\ shared = None
    /\ outBuf = <<>>
    /\ rngResult = NoValue
    /\ rngReads = 0
    /\ rngCall = NoCall

NextContext ==
    \E t \in Threads :
        \/ CallSet(t) \/ SetLock(t) \/ SetCheck(t) \/ SetStoreNode(t)
        \/ SetStoreUid(t) \/ SetUnlock(t) \/ SetReturn(t)
        \/ CallUnset(t) \/ UnsetLock(t) \/ UnsetTake(t) \/ UnsetUnlock(t)
        \/ UnsetDrop(t)
        \/ CallGet(t) \/ GetLock(t) \/ GetClone(t) \/ GetUnlock(t)
        \/ DropHandle(t)

SpecContext == InitContext /\ [][NextContext]_vars

\* The steps of a call in progress: taking the mutex, and the steps that
\* follow it up to the return.
LockStep(t) == SetLock(t) \/ UnsetLock(t) \/ GetLock(t)
RunStep(t) ==
    \/ SetCheck(t) \/ SetStoreNode(t) \/ SetStoreUid(t) \/ SetUnlock(t)
    \/ SetReturn(t)
    \/ UnsetTake(t) \/ UnsetUnlock(t) \/ UnsetDrop(t)
    \/ GetClone(t) \/ GetUnlock(t)

\* Fair scheduling of the callers: a caller that can run does run, and the
\* mutex does not pass over a waiting caller forever.
FairContext ==
    \A t \in Threads : WF_vars(RunStep(t)) /\ SF_vars(LockStep(t))

\* The state the fair specification starts in, reached by caller t1
\* registering node 1 under identity 0 and caller t2 then being refused
\* with EBUSY for every further node but the last, which is still to be
\* created.
InitContextFair ==
    /\ N = 1
    /\ minors_start = 0
    /\ inner = None
    /\ envLog = <<>>
    /\ nextCdev = 1
    /\ calls = 0
    /\ result = NoResult
    /\ dropped = FALSE
    /\ manager = [node |-> Some(NodeRef(1, TRUE)), uid |-> Some(0)]
    /\ lockOwner = None
    /\ pc = [t \in Threads |-> "idle"]
    /\ node_ref = [t \in Threads |-> None]
    /\ caller_uid = [t \in Threads |-> 0]
    /\ strong = [t \in Threads |-> FALSE]
    /\ ret = [t \in Threads |-> IF t = "t1" THEN Ok ELSE Err(EBUSY)]
    /\ handles = [t \in Threads |-> <<>>]
    /\ strongCount = [n \in Nodes |-> IF n = 1 THEN 1 ELSE 0]
    /\ nodeState = [n \in Nodes |-> IF n = 1 THEN "live"
                                   ELSE IF n < MaxNodes THEN "destroyed"
                                   ELSE "unborn"]
    /\ setsSinceUnset = 1
    /\ compatibles = <<>>
    /\ registered = FALSE
    /\ of_table = DefaultOfTable
    /\ pdrv = DefaultPdrv
    /\ pdLog = <<>>
    /\ pdCalls = 0
    /\ pdResult = NoResult
    /\ pdDropped = FALSE
    /\ drvdata = [d \in Devices |-> 0]
    /\ bound = [d \in Devices |-> "unbound"]
    /\ drvState = [k \in DrvObjects |-> "unborn"]
    /\ intoCount = [k \in DrvObjects |-> 0]
    /\ fromCount = [k \in DrvObjects |-> 0]
    /\ probeRet = [d \in Devices |-> 0]
    /\ removeArg = [d \in Devices |-> 0]
    /\ cbRet = [d \in Devices |-> 0]
    /\ probeCall = NoProbe
    /\ probes = 0
    /\ pdevReg = "none"
    /\ pdevOfTable = None
    /\ tblState = [k \in TableObjects |-> "unborn"]
    /\ pdevLog = <<>>
    /\ pdevCalls = 0
    /\ pdevResult = NoResult
    /\ constTable = None
    /\ built = "no"
    /\ asPtr = NotCalled
    /\ rmCfg = None
    /\ regmap = None
    /\ rmLog = <<>>
    /\ rmCalls = 0
    /\ rmResult = NoValue
    /\ shared = None
    /\ outBuf = <<>>
    /\ rngResult = NoValue
    /\ rngReads = 0
    /\ rngCall = NoCall

SpecContextFair == InitContextFair /\ [][NextContext]_vars /\ FairContext

\* The platform_driver Registration in its default state (platform_driver.rs,
\* lines 77-83), for a driver that declares two compatibility strings; no
\* device is bound.
InitPlatform ==
    /\ N = 1
    /\ minors_start = 0
    /\ inner = None
    /\ envLog = <<>>
    /\ nextCdev = 1
    /\ calls = 0
    /\ result = NoResult
    /\ dropped = FALSE
    /\ manager = NewManager
    /\ lockOwner = None
    /\ pc = [t \in Threads |-> "idle"]
    /\ node_ref = [t \in Threads |-> None]
    /\ caller_uid = [t \in Threads |-> 0]
    /\ strong = [t \in Threads |-> FALSE]
    /\ ret = [t \in Threads |-> NoResult]
    /\ handles = [t \in Threads |-> <<>>]
    /\ strongCount = [n \in Nodes |-> 0]
    /\ nodeState = [n \in Nodes |-> "unborn"]
    /\ setsSinceUnset = 0
    /\ compatibles = <<<<97>>, <<98>>>>
    /\ registered = FALSE
    /\ of_table = DefaultOfTable
    /\ pdrv = DefaultPdrv
    /\ pdLog = <<>>
    /\ pdCalls = 0
    /\ pdResult = NoResult
    /\ pdDropped = FALSE
    /\ drvdata = [d \in Devices |-> 0]
    /\ bound = [d \in Devices |-> "unbound"]
    /\ drvState = [k \in DrvObjects |-> "unborn"]
    /\ intoCount = [k \in DrvObjects |-> 0]
    /\ fromCount = [k \in DrvObjects |-> 0]
    /\ probeRet = [d \in Devices |-> 0]
    /\ removeArg = [d \in Devices |-> 0]
    /\ cbRet = [d \in Devices |-> 0]
    /\ probeCall = NoProbe
    /\ probes = 0
    /\ pdevReg = "none"
    /\ pdevOfTable = None
    /\ tblState = [k \in TableObjects |-> "unborn"]
    /\ pdevLog = <<>>
    /\ pdevCalls = 0
    /\ pdevResult = NoResult
    /\ constTable = None
    /\ built = "no"
    /\ asPtr = NotCalled
    /\ rmCfg = None
    /\ regmap = None
    /\ rmLog = <<>>
    /\ rmCalls = 0
    /\ rmResult = NoValue
    /\ shared = None
    /\ outBuf = <<>>
    /\ rngResult = NoValue
    /\ rngReads = 0
    /\ rngCall = NoCall

NextPlatform ==
    \/ PdRegister
    \/ PdDrop
    \/ \E d \in Devices : ProbeCallback(d) \/ RemoveCallback(d)

SpecPlatform == InitPlatform /\ [][NextPlatform]_vars

\* The platdev Registration: none has been created yet; no device is bound.
InitPlatdev ==
    /\ N = 1
    /\ minors_start = 0
    /\ inner = None
    /\ envLog = <<>>
    /\ nextCdev = 1
    /\ calls = 0
    /\ result = NoResult
    /\ dropped = FALSE
    /\ manager = NewManager
    /\ lockOwner = None
    /\ pc = [t \in Threads |-> "idle"]
    /\ node_ref = [t \in Threads |-> None]
    /\ caller_uid = [t \in Threads |-> 0]
    /\ strong = [t \in Threads |-> FALSE]
    /\ ret = [t \in Threads |-> NoResult]
    /\ handles = [t \in Threads |-> <<>>]
    /\ strongCount = [n \in Nodes |-> 0]
    /\ nodeState = [n \in Nodes |-> "unborn"]
    /\ setsSinceUnset = 0
    /\ compatibles = <<<<97>>, <<98>>>>
    /\ registered = FALSE
    /\ of_table = DefaultOfTable
    /\ pdrv = DefaultPdrv
    /\ pdLog = <<>>
    /\ pdCalls = 0
    /\ pdResult = NoResult
    /\ pdDropped = FALSE
    /\ drvdata = [d \in Devices |-> 0]
    /\ bound = [d \in Devices |-> "unbound"]
    /\ drvState = [k \in DrvObjects |-> "unborn"]
    /\ intoCount = [k \in DrvObjects |-> 0]
    /\ fromCount = [k \in DrvObjects |-> 0]
    /\ probeRet = [d \in Devices |-> 0]
    /\ removeArg = [d \in Devices |-> 0]
    /\ cbRet = [d \in Devices |-> 0]
    /\ probeCall = NoProbe
    /\ probes = 0
    /\ pdevReg = "none"
    /\ pdevOfTable = None
    /\ tblState = [k \in TableObjects |-> "unborn"]
    /\ pdevLog = <<>>
    /\ pdevCalls = 0
    /\ pdevResult = NoResult
    /\ constTable = None
    /\ built = "no"
    /\ asPtr = NotCalled
    /\ rmCfg = None
    /\ regmap = None
    /\ rmLog = <<>>
    /\ rmCalls = 0
    /\ rmResult = NoValue
    /\ shared = None
    /\ outBuf = <<>>
    /\ rngResult = NoValue
    /\ rngReads = 0
    /\ rngCall = NoCall

NextPlatdev ==
    \/ PlatdevNew
    \/ PlatdevDrop
    \/ \E d \in Devices : PlatdevProbeCallback(d) \/ PlatdevRemoveCallback(d)

SpecPlatdev == InitPlatdev /\ [][NextPlatdev]_vars

\* The callbacks of both platform drivers: a platform_driver Registration
\* whose new_pinned has succeeded and a platdev Registration whose new has
\* succeeded, with the environment probing and removing the devices until
\* the Registrations are dropped.
InitCallbacks ==
    /\ N = 1
    /\ minors_start = 0
    /\ inner = None
    /\ envLog = <<>>
    /\ nextCdev = 1
    /\ calls = 0
    /\ result = NoResult
    /\ dropped = FALSE
    /\ manager = NewManager
    /\ lockOwner = None
    /\ pc = [t \in Threads |-> "idle"]
    /\ node_ref = [t \in Threads |-> None]
    /\ caller_uid = [t \in Threads |-> 0]
    /\ strong = [t \in Threads |-> FALSE]
    /\ ret = [t \in Threads |-> NoResult]
    /\ handles = [t \in Threads |-> <<>>]
    /\ strongCount = [n \in Nodes |-> 0]
    /\ nodeState = [n \in Nodes |-> "unborn"]
    /\ setsSinceUnset = 0
    /\ compatibles = <<<<97>>, <<98>>>>
    /\ registered = TRUE
    /\ of_table = StoreEntry(DefaultOfTable, new_of_device_id(<<97>>).id)
    /\ pdrv = [name |-> "name", of_match_table |-> "of_table",
               probe |-> "probe_callback", remove |-> "remove_callback"]
    /\ pdLog = <<platform_driver_register(0)>>
    /\ pdCalls = 1
    /\ pdResult = Ok
    /\ pdDropped = FALSE
    /\ drvdata = [d \in Devices |-> 0]
    /\ bound = [d \in Devices |-> "unbound"]
    /\ drvState = [k \in DrvObjects |-> "unborn"]
    /\ intoCount = [k \in DrvObjects |-> 0]
    /\ fromCount = [k \in DrvObjects |-> 0]
    /\ probeRet = [d \in Devices |-> 0]
    /\ removeArg = [d \in Devices |-> 0]
    /\ cbRet = [d \in Devices |-> 0]
    /\ probeCall = NoProbe
    /\ probes = 0
    /\ pdevReg = "registered"
    /\ pdevOfTable = Some(into_pointer(1))
    /\ tblState = [k \in TableObjects |-> IF k = 1 THEN "raw" ELSE "unborn"]
    /\ pdevLog = <<platform_driver_register(0)>>
    /\ pdevCalls = 1
    /\ pdevResult = Ok
    /\ constTable = None
    /\ built = "no"
    /\ asPtr = NotCalled
    /\ rmCfg = None
    /\ regmap = None
    /\ rmLog = <<>>
    /\ rmCalls = 0
    /\ rmResult = NoValue
    /\ shared = None
    /\ outBuf = <<>>
    /\ rngResult = NoValue
    /\ rngReads = 0
    /\ rngCall = NoCall

NextCallbacks ==
    \/ \E d \in Devices : ProbeCallback(d) \/ RemoveCallback(d)
    \/ \E d \in Devices : PlatdevProbeCallback(d) \/ PlatdevRemoveCallback(d)
    \/ PdDrop
    \/ PlatdevDrop

SpecCallbacks == InitCallbacks /\ [][NextCallbacks]_vars

\* The match tables: a driver declares an array of compatibility strings,
\* builds a ConstOfMatchTable from it, and registers a platform driver by
\* one of them.
InitOf ==
    /\ N = 1
    /\ minors_start = 0
    /\ inner = None
    /\ envLog = <<>>
    /\ nextCdev = 1
    /\ calls = 0
    /\ result = NoResult
    /\ dropped = FALSE
    /\ manager = NewManager
    /\ lockOwner = None
    /\ pc = [t \in Threads |-> "idle"]
    /\ node_ref = [t \in Threads |-> None]
    /\ caller_uid = [t \in Threads |-> 0]
    /\ strong = [t \in Threads |-> FALSE]
    /\ ret = [t \in Threads |-> NoResult]
    /\ handles = [t \in Threads |-> <<>>]
    /\ strongCount = [n \in Nodes |-> 0]
    /\ nodeState = [n \in Nodes |-> "unborn"]
    /\ setsSinceUnset = 0
    /\ compatibles \in UNION {[1..n -> CompatStrings] : n \in 0..MaxEntries}
    /\ registered = FALSE
    /\ of_table = DefaultOfTable
    /\ pdrv = DefaultPdrv
    /\ pdLog = <<>>
    /\ pdCalls = 0
    /\ pdResult = NoResult
    /\ pdDropped = FALSE
    /\ drvdata = [d \in Devices |-> 0]
    /\ bound = [d \in Devices |-> "unbound"]
    /\ drvState = [k \in DrvObjects |-> "unborn"]
    /\ intoCount = [k \in DrvObjects |-> 0]
    /\ fromCount = [k \in DrvObjects |-> 0]
    /\ probeRet = [d \in Devices |-> 0]
    /\ removeArg = [d \in Devices |-> 0]
    /\ cbRet = [d \in Devices |-> 0]
    /\ probeCall = NoProbe
    /\ probes = 0
    /\ pdevReg = "none"
    /\ pdevOfTable = None
    /\ tblState = [k \in TableObjects |-> "unborn"]
    /\ pdevLog = <<>>
    /\ pdevCalls = 0
    /\ pdevResult = NoResult
    /\ constTable = None
    /\ built = "no"
    /\ asPtr = NotCalled
    /\ rmCfg = None
    /\ regmap = None
    /\ rmLog = <<>>
    /\ rmCalls = 0
    /\ rmResult = NoValue
    /\ shared = None
    /\ outBuf = <<>>
    /\ rngResult = NoValue
    /\ rngReads = 0
    /\ rngCall = NoCall

NextOf == NewConst \/ AsPtr \/ PdRegister \/ PdDrop

SpecOf == InitOf /\ [][NextOf]_vars

\* The register map: no configuration and no Regmap yet.
InitRegmap ==
    /\ N = 1
    /\ minors_start = 0
    /\ inner = None
    /\ envLog = <<>>
    /\ nextCdev = 1
    /\ calls = 0
    /\ result = NoResult
    /\ dropped = FALSE
    /\ manager = NewManager
    /\ lockOwner = None
    /\ pc = [t \in Threads |-> "idle"]
    /\ node_ref = [t \in Threads |-> None]
    /\ caller_uid = [t \in Threads |-> 0]
    /\ strong = [t \in Threads |-> FALSE]
    /\ ret = [t \in Threads |-> NoResult]
    /\ handles = [t \in Threads |-> <<>>]
    /\ strongCount = [n \in Nodes |-> 0]
    /\ nodeState = [n \in Nodes |-> "unborn"]
    /\ setsSinceUnset = 0
    /\ compatibles = <<>>
    /\ registered = FALSE
    /\ of_table = DefaultOfTable
    /\ pdrv = DefaultPdrv
    /\ pdLog = <<>>
    /\ pdCalls = 0
    /\ pdResult = NoResult
    /\ pdDropped = FALSE
    /\ drvdata = [d \in Devices |-> 0]
    /\ bound = [d \in Devices |-> "unbound"]
    /\ drvState = [k \in DrvObjects |-> "unborn"]
    /\ intoCount = [k \in DrvObjects |-> 0]
    /\ fromCount = [k \in DrvObjects |-> 0]
    /\ probeRet = [d \in Devices |-> 0]
    /\ removeArg = [d \in Devices |-> 0]
    /\ cbRet = [d \in Devices |-> 0]
    /\ probeCall = NoProbe
    /\ probes = 0
    /\ pdevReg = "none"
    /\ pdevOfTable = None
    /\ tblState = [k \in TableObjects |-> "unborn"]
    /\ pdevLog = <<>>
    /\ pdevCalls = 0
    /\ pdevResult = NoResult
    /\ constTable = None
    /\ built = "no"
    /\ asPtr = NotCalled
    /\ rmCfg = None
    /\ regmap = None
    /\ rmLog = <<>>
    /\ rmCalls = 0
    /\ rmResult = NoValue
    /\ shared = None
    /\ outBuf = <<>>
    /\ rngResult = NoValue
    /\ rngReads = 0
    /\ rngCall = NoCall

NextRegmap ==
    \/ ConfigNew \/ ConfigRegStride \/ ConfigMaxRegister
    \/ InitMmio \/ RegmapWrite \/ RegmapRead

SpecRegmap == InitRegmap /\ [][NextRegmap]_vars

\* The RNG device: not probed yet.
InitRng ==
    /\ N = 1
    /\ minors_start = 0
    /\ inner = None
    /\ envLog = <<>>
    /\ nextCdev = 1
    /\ calls = 0
    /\ result = NoResult
    /\ dropped = FALSE
    /\ manager = NewManager
    /\ lockOwner = None
    /\ pc = [t \in Threads |-> "idle"]
    /\ node_ref = [t \in Threads |-> None]
    /\ caller_uid = [t \in Threads |-> 0]
    /\ strong = [t \in Threads |-> FALSE]
    /\ ret = [t \in Threads |-> NoResult]
    /\ handles = [t \in Threads |-> <<>>]
    /\ strongCount = [n \in Nodes |-> 0]
    /\ nodeState = [n \in Nodes |-> "unborn"]
    /\ setsSinceUnset = 0
    /\ compatibles = <<>>
    /\ registered = FALSE
    /\ of_table = DefaultOfTable
    /\ pdrv = DefaultPdrv
    /\ pdLog = <<>>
    /\ pdCalls = 0
    /\ pdResult = NoResult
    /\ pdDropped = FALSE
    /\ drvdata = [d \in Devices |-> 0]
    /\ bound = [d \in Devices |-> "unbound"]
    /\ drvState = [k \in DrvObjects |-> "unborn"]
    /\ intoCount = [k \in DrvObjects |-> 0]
    /\ fromCount = [k \in DrvObjects |-> 0]
    /\ probeRet = [d \in Devices |-> 0]
    /\ removeArg = [d \in Devices |-> 0]
    /\ cbRet = [d \in Devices |-> 0]
    /\ probeCall = NoProbe
    /\ probes = 0
    /\ pdevReg = "none"
    /\ pdevOfTable = None
    /\ tblState = [k \in TableObjects |-> "unborn"]
    /\ pdevLog = <<>>
    /\ pdevCalls = 0
    /\ pdevResult = NoResult
    /\ constTable = None
    /\ built = "no"
    /\ asPtr = NotCalled
    /\ rmCfg = None
    /\ regmap = None
    /\ rmLog = <<>>
    /\ rmCalls = 0
    /\ rmResult = NoValue
    /\ shared = None
    /\ outBuf = <<>>
    /\ rngResult = NoValue
    /\ rngReads = 0
    /\ rngCall = NoCall

NextRng == RngProbe \/ RngRead

SpecRng == InitRng /\ [][NextRng]_vars

(***************************************************************************)
(* Observations on the chrdev state and the environment log.               *)
(***************************************************************************)
UsedSlots == IF IsSome(inner) THEN Unwrap(inner).used ELSE 0

LogIdx == 1..Len(envLog)

\* The environment refused something: a non-zero return code or a null cdev.
EnvFailedAt(i) ==
    \/ envLog[i].rc # 0
    \/ envLog[i].call = "cdev_alloc" /\ envLog[i].cdev = 0
EnvAllSucceeded == \A i \in LogIdx : ~EnvFailedAt(i)

\* A register call is taken in this step.
RegisterStep == calls' = calls + 1

\* C1: with an environment that never fails, the first N register calls
\* succeed and fill slots 0..N-1, and every later call returns EINVAL and
\* changes nothing: used, the slots, the namespace, the environment log
\* (no cdev_alloc, no cdev_add) and the allocator are as before.
C1_RegisterUpToCapacity ==
    /\ [](EnvAllSucceeded /\ ~dropped =>
            /\ 1 <= calls /\ calls <= N => result = Ok /\ UsedSlots = calls
            /\ calls > N => result = Err(EINVAL) /\ UsedSlots = N)
    /\ [][RegisterStep /\ IsSome(inner) /\ UsedSlots = N =>
            /\ result' = Err(EINVAL)
            /\ inner' = inner
            /\ envLog' = envLog
            /\ nextCdev' = nextCdev]_vars

C1_Witness ==
    /\ ~dropped /\ EnvAllSucceeded
    /\ N >= 2 /\ calls > N
    /\ result = Err(EINVAL) /\ UsedSlots = N
    /\ \A i \in 0..(N - 1) : IsSome(Unwrap(inner).cdevs[i])

\* C2: once a Registration with an allocated namespace is torn down, the
\* log holds one unregister_chrdev_region, and every handle whose cdev_add
\* succeeded has its cdev_del before it.
NamespaceAllocated ==
    \E i \in LogIdx : envLog[i].call = "alloc_chrdev_region" /\ envLog[i].rc = 0
RegisteredHandles ==
    {envLog[i].cdev : i \in {j \in LogIdx : envLog[j].call = "cdev_add" /\ envLog[j].rc = 0}}
C2_HandlesReleasedBeforeNamespace ==
    dropped /\ NamespaceAllocated =>
        \E u \in LogIdx :
            /\ envLog[u].call = "unregister_chrdev_region"
            /\ \A h \in RegisteredHandles :
                 \E d \in 1..(u - 1) : envLog[d] = cdev_del(h)

C2_Witness ==
    /\ dropped /\ NamespaceAllocated
    /\ Cardinality(RegisteredHandles) >= 2
    /\ \E i \in LogIdx : envLog[i].call = "cdev_add" /\ envLog[i].rc # 0
    /\ envLog[Len(envLog)].call = "unregister_chrdev_region"

\* The environment calls a step adds to the log.
Added == SubSeq(envLog', Len(envLog) + 1, Len(envLog'))

\* The slots of an Option<RegistrationInner> that hold a handle.
Populated(o) ==
    IF IsSome(o) THEN {i \in 0..(N - 1) : IsSome(Unwrap(o).cdevs[i])} ELSE {}

\* C11: when cdev_add fails inside register, the call's last environment
\* call is the cdev_del of the handle it had just allocated, the error is
\* the code cdev_add returned, and used and the slots are as before.
C11_AddFailureReleasesHandle ==
    [][RegisterStep =>
        \A i \in 1..Len(Added) :
            Added[i].call = "cdev_add" /\ Added[i].rc # 0 =>
                /\ i + 1 = Len(Added)
                /\ Added[i + 1] = cdev_del(Added[i].cdev)
                /\ result' = Err(Added[i].rc)
                /\ UsedSlots' = UsedSlots
                /\ Populated(inner') = Populated(inner)
                /\ IsSome(inner) => inner' = inner]_vars

C11_Witness ==
    /\ ~dropped /\ UsedSlots >= 1 /\ Len(envLog) >= 2
    /\ envLog[Len(envLog) - 1].call = "cdev_add"
    /\ envLog[Len(envLog) - 1].rc = EBUSY
    /\ envLog[Len(envLog)] = cdev_del(envLog[Len(envLog) - 1].cdev)
    /\ result = Err(EBUSY)

\* C12: no alloc_chrdev_region call follows a successful one, and the
\* namespace base of a registered Registration never changes.
C12_NamespaceAllocatedOnce ==
    /\ [](\A i, j \in LogIdx :
            i < j /\ envLog[i].call = "alloc_chrdev_region" /\ envLog[i].rc = 0 =>
                envLog[j].call # "alloc_chrdev_region")
    /\ [][IsSome(inner) /\ IsSome(inner') =>
            Unwrap(inner').dev = Unwrap(inner).dev]_vars

\* A refused allocation, a successful one, then a failed and a successful
\* register call.
C12_Witness ==
    /\ ~dropped /\ calls >= 4 /\ UsedSlots >= 1 /\ result = Ok
    /\ envLog[1].call = "alloc_chrdev_region" /\ envLog[1].rc # 0
    /\ envLog[2].call = "alloc_chrdev_region" /\ envLog[2].rc = 0
    /\ envLog[3] = cdev_alloc(0)

\* C13: used never exceeds N and a slot holds a handle only below used;
\* until teardown used never decreases.
C13_UsedBoundsSlots ==
    /\ [](/\ UsedSlots <= N
          /\ \A i \in Populated(inner) : i < UsedSlots)
    /\ [][~dropped' => UsedSlots' >= UsedSlots]_vars

C13_Witness ==
    /\ ~dropped /\ N = 3 /\ UsedSlots = 2 /\ calls >= 3
    /\ Populated(inner) = {0, 1}

\* C14: a register call on an unregistered Registration starts with the
\* namespace request; when that is refused the call returns the refusal's
\* code having made no other environment call, and the Registration stays
\* unregistered (so the next call requests the namespace again).
C14_NamespaceFailureStops ==
    [][RegisterStep /\ IsNone(inner) =>
        /\ Len(Added) >= 1
        /\ Added[1].call = "alloc_chrdev_region" /\ Added[1].count = N
        /\ Added[1].rc # 0 =>
             /\ result' = Err(Added[1].rc)
             /\ Len(Added) = 1
             /\ inner' = None
             /\ nextCdev' = nextCdev]_vars

C14_Witness ==
    /\ ~dropped /\ calls = 2 /\ UsedSlots = 1 /\ result = Ok
    /\ envLog[1].call = "alloc_chrdev_region" /\ envLog[1].rc = ENOMEM
    /\ envLog[2].call = "alloc_chrdev_region" /\ envLog[2].rc = 0

\* C15: when cdev_alloc returns null, register returns ENOMEM; the slots and
\* used are as before, the namespace stays (it is neither released nor, if
\* it was there before the call, requested again), and a later call whose
\* environment calls succeed stores its handle in slot used.
C15_AllocFailureKeepsRegistry ==
    [][RegisterStep =>
        /\ Len(Added) >= 1 /\ Added[Len(Added)] = cdev_alloc(0) =>
             /\ result' = Err(ENOMEM)
             /\ IsSome(inner')
             /\ UsedSlots' = UsedSlots
             /\ Populated(inner') = Populated(inner)
             /\ IsSome(inner) => inner' = inner /\ Len(Added) = 1
             /\ \A i \in 1..Len(Added) : Added[i].call # "unregister_chrdev_region"
        /\ IsSome(inner) /\ UsedSlots < N /\ Len(Added) = 3 /\ Added[3].rc = 0 =>
             /\ Added[1].call = "cdev_alloc"
             /\ Added[3].call = "cdev_add"
             /\ result' = Ok
             /\ Unwrap(inner').cdevs[UsedSlots] = Some(Added[3].cdev)]_vars

\* A null cdev_alloc, and after it a register call that succeeded, with
\* one namespace request in all.
C15_Witness ==
    /\ ~dropped /\ result = Ok /\ UsedSlots >= 1
    /\ \E i, j \in LogIdx :
         /\ i < j /\ envLog[i] = cdev_alloc(0)
         /\ envLog[j].call = "cdev_add" /\ envLog[j].rc = 0
    /\ Cardinality({i \in LogIdx : envLog[i].call = "alloc_chrdev_region"}) = 1

\* C16: every handle cdev_alloc returned is passed to cdev_del at most once;
\* before teardown exactly the handles whose cdev_add failed have been
\* released, and after teardown every handle has been released once.
AllocatedHandles ==
    {envLog[i].cdev : i \in {j \in LogIdx : envLog[j].call = "cdev_alloc" /\ envLog[j].cdev # 0}}
Releases(h) == Cardinality({i \in LogIdx : envLog[i] = cdev_del(h)})
C16_HandlesReleasedOnce ==
    /\ \A i \in LogIdx :
         envLog[i].call = "cdev_del" => envLog[i].cdev \in AllocatedHandles
    /\ \A h \in AllocatedHandles :
         IF dropped \/ h \notin RegisteredHandles
         THEN Releases(h) = 1
         ELSE Releases(h) = 0

C16_Witness ==
    /\ dropped
    /\ Cardinality(RegisteredHandles) >= 2
    /\ Cardinality(AllocatedHandles \ RegisteredHandles) >= 1

\* The slot a registered handle was stored in: its sub-identifier minus the
\* namespace base.
NamespaceBase ==
    envLog[CHOOSE i \in LogIdx :
             envLog[i].call = "alloc_chrdev_region" /\ envLog[i].rc = 0].dev
SlotOf(h) ==
    envLog[CHOOSE i \in LogIdx :
             envLog[i].call = "cdev_add" /\ envLog[i].rc = 0 /\ envLog[i].cdev = h].dev
        - NamespaceBase
\* The cdev_del calls teardown makes: those of registered handles.
TeardownReleases ==
    {i \in LogIdx : envLog[i].call = "cdev_del" /\ envLog[i].cdev \in RegisteredHandles}

\* C17 as claimed: teardown releases the slots in descending index order,
\* and then the namespace.
C17_Original ==
    dropped /\ NamespaceAllocated =>
        /\ \A i, j \in TeardownReleases :
             i < j => SlotOf(envLog[i].cdev) > SlotOf(envLog[j].cdev)
        /\ envLog[Len(envLog)].call = "unregister_chrdev_region"

\* C17 (amended): teardown releases the slots in ascending index order
\* (slot 0 first, slot k-1 last), and then the namespace.
C17_TeardownAscending ==
    dropped /\ NamespaceAllocated =>
        /\ \A i, j \in TeardownReleases :
             i < j => SlotOf(envLog[i].cdev) < SlotOf(envLog[j].cdev)
        /\ envLog[Len(envLog)].call = "unregister_chrdev_region"
        /\ Cardinality(TeardownReleases) = Cardinality(RegisteredHandles)

C17_Witness ==
    /\ dropped /\ N = 3
    /\ Cardinality(RegisteredHandles) = 3
    /\ envLog[Len(envLog)].call = "unregister_chrdev_region"

(***************************************************************************)
(* Observations on the platform driver and its devices.                    *)
(***************************************************************************)
\* A step in which device d is removed: it was bound and no longer is.
RemoveStep(d) == bound[d] # "unbound" /\ bound'[d] = "unbound"

\* C18: the remove of a device receives the object its preceding successful
\* probe returned, read back from the drvdata pointer that probe stored;
\* every object is converted to a pointer once and converted back at most
\* once, and exactly once when its device has been removed.
C18_DrvDataRoundTrip ==
    /\ [](\A k \in DrvObjects :
            /\ intoCount[k] <= 1 /\ fromCount[k] <= intoCount[k]
            /\ drvState[k] \in {"unborn", "raw", "dropped"}
            /\ drvState[k] = "raw" <=> intoCount[k] = 1 /\ fromCount[k] = 0
            /\ drvState[k] = "raw" <=>
                 \E d \in Devices : bound[d] # "unbound" /\ probeRet[d] = k)
    /\ [][\A d \in Devices : RemoveStep(d) =>
            /\ drvdata[d] = into_pointer(probeRet[d])
            /\ removeArg'[d] = probeRet[d]
            /\ fromCount'[probeRet[d]] = 1
            /\ drvState'[probeRet[d]] = "dropped"]_vars

\* A device probed, removed, probed again and removed again, each remove
\* having received the object of the probe before it.
C18_Witness ==
    \E d \in Devices :
        /\ bound[d] = "unbound" /\ probeRet[d] = 2 /\ removeArg[d] = 2
        /\ fromCount[1] = 1 /\ fromCount[2] = 1
        /\ drvdata[d] = into_pointer(2)

PdLogIdx == 1..Len(pdLog)
RegisterOks == {i \in PdLogIdx : pdLog[i].call = "__platform_driver_register" /\ pdLog[i].rc = 0}
Unregisters == {i \in PdLogIdx : pdLog[i].call = "platform_driver_unregister"}
PdRegisterStep == pdCalls' = pdCalls + 1

\* C19: the environment's driver-register call succeeds at most once; a
\* register call on a registered Registration returns EINVAL and calls
\* nothing; a dropped Registration has called platform_driver_unregister
\* once if a registration had succeeded and not at all otherwise, and a
\* live one has not called it.
C19_RegistrationsBalanced ==
    /\ [](/\ Cardinality(RegisterOks) <= 1
          /\ registered <=> RegisterOks # {}
          /\ Cardinality(Unregisters) =
                IF pdDropped /\ RegisterOks # {} THEN 1 ELSE 0
          /\ \A u \in Unregisters : u = Len(pdLog) /\ \E i \in RegisterOks : i < u)
    /\ [][PdRegisterStep /\ registered =>
            /\ pdResult' = Err(EINVAL)
            /\ pdLog' = pdLog
            /\ of_table' = of_table /\ pdrv' = pdrv /\ registered']_vars

\* A successful registration, a register call on the registered
\* Registration, and the drop.
C19_Witness ==
    /\ pdDropped /\ pdCalls = 2 /\ pdResult = Err(EINVAL)
    /\ Len(pdLog) = 2
    /\ pdLog[1].call = "__platform_driver_register" /\ pdLog[1].rc = 0
    /\ pdLog[2].call = "platform_driver_unregister"

(***************************************************************************)
(* Observations on the match tables.                                       *)
(***************************************************************************)
\* A string fits an entry when its bytes and the terminating NUL do.
Fits(c) == Len(c) + 1 <= BufLen
AllFit == \A i \in 1..Len(compatibles) : Fits(compatibles[i])

\* The entry that holds c: its bytes followed by zero fill, and nothing else.
EntryOf(c) ==
    [name |-> Zeros(NameLen), type_ |-> Zeros(NameLen),
     compatible |-> [i \in 1..BufLen |-> IF i <= Len(c) THEN c[i] ELSE 0],
     data |-> 0]

\* C20: from an array of N strings that fit, new_const builds N entries
\* that hold the strings in input order, each followed by zero fill, and an
\* all-zero sentinel; the C array as_ptr gives has these N+1 entries.  The
\* two-entry table of a platform_driver Registration holds the string
\* register was given in entry 0.  No operation writes either sentinel.
C20_MatchTableBuilt ==
    /\ [](/\ AllFit /\ built # "no" =>
               /\ built = "yes"
               /\ Len(Unwrap(constTable).table) = Len(compatibles)
               /\ \A i \in 1..Len(compatibles) :
                    Unwrap(constTable).table[i] = EntryOf(compatibles[i])
          /\ built = "yes" => Unwrap(constTable).sentinel = zeroed_of_device_id
          /\ asPtr.called /\ ~asPtr.panic =>
               /\ Len(asPtr.array) = Len(compatibles) + 1
               /\ \A i \in 1..Len(compatibles) :
                    asPtr.array[i] = EntryOf(compatibles[i])
               /\ asPtr.array[Len(compatibles) + 1] = zeroed_of_device_id
          /\ Len(of_table) = 2
          /\ of_table[2] = zeroed_of_device_id)
    /\ [][PdRegisterStep =>
            IF pdLog' # pdLog
            THEN \E i \in 1..Len(compatibles) :
                    Fits(compatibles[i]) /\ of_table'[1] = EntryOf(compatibles[i])
            ELSE of_table' = of_table]_vars

\* Two different strings, one of them filling its entry up to the NUL, built
\* into a table and read through as_ptr, and a platform driver registered
\* by a non-empty string.
C20_Witness ==
    /\ built = "yes" /\ asPtr.called /\ ~asPtr.panic
    /\ Len(compatibles) = 2
    /\ compatibles[1] = <<98, 97>> /\ Len(compatibles[2]) = BufLen - 1
    /\ registered /\ of_table[1] # zeroed_of_device_id

\* An entry is NUL-terminated when a zero byte lies inside its buffer.
NulTerminated(e) == \E i \in 1..BufLen : e.compatible[i] = 0

\* C21: an entry is written only from a string that fits the buffer with
\* its NUL, and it is stored NUL-terminated; when a string does not fit,
\* new_const aborts and yields no table, and register returns EINVAL having
\* called nothing and written nothing.
C21_NoTruncation ==
    /\ [](/\ built = "yes" =>
               /\ AllFit
               /\ \A i \in 1..Len(compatibles) :
                    /\ NulTerminated(Unwrap(constTable).table[i])
                    /\ Unwrap(constTable).table[i].compatible[Len(compatibles[i]) + 1] = 0
          /\ built = "aborted" => ~AllFit /\ constTable = None
          /\ built # "no" /\ ~AllFit => built = "aborted"
          /\ NulTerminated(of_table[1])
          /\ \/ of_table[1] = zeroed_of_device_id
             \/ \E i \in 1..Len(compatibles) :
                  Fits(compatibles[i]) /\ of_table[1] = EntryOf(compatibles[i]))
    /\ [][PdRegisterStep /\ ~registered =>
            \/ \E i \in 1..Len(compatibles) :
                 /\ Fits(compatibles[i])
                 /\ Len(pdLog') = Len(pdLog) + 1
                 /\ of_table'[1] = EntryOf(compatibles[i])
            \/ \E i \in 1..Len(compatibles) :
                 /\ ~Fits(compatibles[i])
                 /\ pdLog' = pdLog
                 /\ pdResult' = Err(EINVAL)
                 /\ of_table' = of_table /\ pdrv' = pdrv /\ ~registered']_vars

\* A string that fills the buffer up to the NUL and one that is a byte too
\* long: construction aborted and register refused the long one.
C21_Witness ==
    /\ Len(compatibles) = 2
    /\ Len(compatibles[1]) = BufLen - 1 /\ Len(compatibles[2]) = BufLen
    /\ built = "aborted" /\ constTable = None
    /\ pdCalls = 1 /\ pdResult = Err(EINVAL) /\ pdLog = <<>>
    /\ of_table = DefaultOfTable

(***************************************************************************)
(* Observations on the Context.                                            *)
(***************************************************************************)
\* Caller t takes the step that leaves position p.
Leaves(t, p) == pc[t] = p /\ pc'[t] # p

\* Positions at which a caller holds the guard.
GuardedPcs == {"set_check", "set_node", "set_uid", "set_unlock",
               "unset_take", "unset_unlock", "get_clone", "get_unlock"}

\* The strong references to node n: in the slot, owned by a running
\* operation, and held by callers.
StrongInSlot(n) ==
    IF IsSome(manager.node) /\ Unwrap(manager.node) = NodeRef(n, TRUE) THEN 1 ELSE 0
StrongInFlight(n) == Cardinality({t \in Threads : node_ref[t] = Some(NodeRef(n, TRUE))})
StrongHandles(n) ==
    {<<t, i>> \in Threads \X (1..MaxHandles) :
        i <= Len(handles[t]) /\ handles[t][i] = NodeRef(n, TRUE)}

\* C3: a set_manager_node that finds a node stored returns EBUSY and never
\* writes the Manager (neither at the check nor on its way out), and a node
\* is only ever stored into an empty slot.
C3_SetOnOccupiedIsBusy ==
    [][\A t \in Threads :
        /\ Leaves(t, "set_check") /\ IsSome(manager.node) =>
             /\ ret'[t] = Err(EBUSY)
             /\ pc'[t] = "set_unlock"
             /\ manager' = manager
        /\ pc[t] \in {"set_unlock", "set_ret"} /\ ret[t] = Err(EBUSY) /\ pc'[t] # pc[t] =>
             manager' = manager
        /\ Leaves(t, "set_node") => IsNone(manager.node)]_vars

C3_Witness ==
    \E t \in Threads :
        /\ pc[t] = "idle" /\ ret[t] = Err(EBUSY)
        /\ manager.node = Some(NodeRef(1, TRUE))
        /\ nodeState[2] = "destroyed"

\* C4: the operations are serialized by the mutex: only the owner of the
\* mutex is at a guarded position, at most one set_manager_node has stored
\* a node since the last take, and a get_manager_node about to read the
\* Manager never finds a node stored without an identity.
C4_OperationsAtomic ==
    /\ \A t \in Threads : pc[t] \in GuardedPcs <=> lockOwner = Some(t)
    /\ setsSinceUnset <= 1
    /\ \A t \in Threads :
         pc[t] = "get_clone" /\ IsSome(manager.node) => IsSome(manager.uid)

\* Two callers race: one is between its two stores, the other waits in get.
C4_Witness ==
    \E t1, t2 \in Threads :
        /\ pc[t1] = "set_uid" /\ IsSome(manager.node) /\ IsNone(manager.uid)
        /\ pc[t2] = "get_lock"

C6_Original ==
    [][\A t \in Threads :
        Leaves(t, "set_check") /\ IsSome(manager.node) /\ IsSome(manager.uid)
            /\ caller_uid[t] # Unwrap(manager.uid) =>
                ret'[t] = Err(EPERM)]_vars

\* C6 (amended): such a call returns EBUSY; the stored-node check comes
\* before the identity check.
C6_SecondSetIsBusy ==
    [][\A t \in Threads :
        Leaves(t, "set_check") /\ IsSome(manager.node) /\ IsSome(manager.uid)
            /\ caller_uid[t] # Unwrap(manager.uid) =>
                ret'[t] = Err(EBUSY)]_vars

C6_Witness ==
    \E t \in Threads :
        /\ pc[t] = "set_unlock" /\ ret[t] = Err(EBUSY)
        /\ IsSome(manager.node) /\ IsSome(manager.uid)
        /\ caller_uid[t] # Unwrap(manager.uid)

\* C7 as claimed: whenever no operation holds the mutex, the slot has an
\* identity exactly when it has a node.
C7_Original ==
    MutexFree => (IsNone(manager.uid) <=> IsNone(manager.node))

\* C7 (amended): the identity is never cleared, not even by
\* unset_manager_node, which leaves a slot with no node and its identity;
\* and whenever no operation holds the mutex a stored node has an identity.
C7_IdentityOutlivesNode ==
    /\ [](MutexFree /\ IsSome(manager.node) => IsSome(manager.uid))
    /\ [][IsSome(manager.uid) => IsSome(manager'.uid)]_vars
    /\ [][\A t \in Threads : Leaves(t, "unset_take") =>
            IsNone(manager'.node) /\ manager'.uid = manager.uid]_vars

C7_Witness ==
    /\ MutexFree
    /\ IsNone(manager.node) /\ IsSome(manager.uid)
    /\ \E t \in Threads : pc[t] = "idle" /\ ret[t] = Ok /\ nodeState[1] = "destroyed"

\* C8: unset_manager_node empties the slot and keeps the identity; the
\* reference it took out is dropped once, by this call, and with an empty
\* slot the call changes neither the Manager nor any reference count.
C8_UnsetFrame ==
    [][\A t \in Threads :
        /\ Leaves(t, "unset_take") =>
             /\ manager'.node = None
             /\ manager'.uid = manager.uid
             /\ node_ref'[t] = manager.node
             /\ strongCount' = strongCount /\ nodeState' = nodeState
             /\ IsNone(manager.node) => manager' = manager
        /\ Leaves(t, "unset_unlock") =>
             /\ manager' = manager /\ node_ref' = node_ref
             /\ strongCount' = strongCount /\ nodeState' = nodeState
        /\ Leaves(t, "unset_drop") =>
             /\ manager' = manager
             /\ node_ref'[t] = None
             /\ IF IsSome(node_ref[t])
                THEN strongCount' = [strongCount EXCEPT ![Unwrap(node_ref[t]).node] = @ - 1]
                ELSE strongCount' = strongCount /\ nodeState' = nodeState]_vars

\* An unset that released a reference and a later unset on the empty slot.
C8_Witness ==
    \E t \in Threads :
        /\ pc[t] = "unset_drop" /\ IsNone(node_ref[t])
        /\ IsNone(manager.node) /\ IsSome(manager.uid)
        /\ nodeState[1] = "destroyed"

\* C9: get_manager_node returns the dead error when no node is stored and
\* otherwise a new reference (strong or weak as asked) to the stored node,
\* which the caller receives; it never changes the Manager.
C9_GetFrame ==
    [][\A t \in Threads :
        /\ Leaves(t, "get_clone") =>
             /\ manager' = manager
             /\ IF IsNone(manager.node)
                THEN /\ ret'[t] = new_dead
                     /\ node_ref'[t] = None
                     /\ strongCount' = strongCount
                ELSE /\ ret'[t] = Ok
                     /\ node_ref'[t] = Some(NodeRef(Unwrap(manager.node).node, strong[t]))
        /\ Leaves(t, "get_unlock") =>
             /\ manager' = manager
             /\ handles'[t] = handles[t] \o node_ref[t]
             /\ ret'[t] = ret[t]]_vars

\* One caller was told "dead" after an unset, the other holds a handle.
C9_Witness ==
    \E t1, t2 \in Threads :
        /\ pc[t1] = "idle" /\ ret[t1] = new_dead
        /\ IsSome(manager.uid) /\ IsNone(manager.node)
        /\ handles[t2] # <<>>

\* C10: every strong reference is counted, so a node is destroyed only when
\* the slot's reference and every strong handle to it are gone: a node that
\* a caller holds a strong handle to, or that the slot stores, is live.
C10_StrongHandleKeepsNodeAlive ==
    \A n \in Nodes :
        /\ strongCount[n] =
             StrongInSlot(n) + StrongInFlight(n) + Cardinality(StrongHandles(n))
        /\ nodeState[n] = "live" <=> strongCount[n] > 0
        /\ nodeState[n] = "destroyed" =>
             StrongInSlot(n) = 0 /\ StrongHandles(n) = {}

\* A strong handle survives the unset of its node: the slot is empty, the
\* unset has returned, the node is live through the handle alone.
C10_Witness ==
    \E t1, t2 \in Threads :
        /\ handles[t1] = <<NodeRef(1, TRUE)>>
        /\ pc[t2] = "idle" /\ ret[t2] = Ok
        /\ IsNone(manager.node) /\ IsSome(manager.uid)
        /\ nodeState[1] = "live" /\ strongCount[1] = 1

\* Observations on the register map.
RmIdx == 1..Len(rmLog)
RmAppended == SubSeq(rmLog', Len(rmLog) + 1, Len(rmLog'))
RmCalled(name) ==
    /\ Len(rmLog') > Len(rmLog)
    /\ rmLog'[Len(rmLog) + 1].call = name
IsErrPtr(p) == p \in (-MAX_ERRNO)..-1

\* C22: every register-map configuration handed to the environment has
\* disable_locking = false, whatever RegmapConfig was built through new,
\* reg_stride and max_register; the other fields are the builder's.
C22_LockingEnabled ==
    /\ \A i \in RmIdx :
         rmLog[i].call = "devm_regmap_init_mmio" =>
             rmLog[i].config.disable_locking = FALSE
    /\ IsSome(rmCfg) =>
         LET c == Unwrap(rmCfg)
         IN  /\ build(c).disable_locking = FALSE
             /\ build(c).reg_bits = c.reg_bits
             /\ build(c).val_bits = c.val_bits
             /\ build(c).reg_stride = (IF IsSome(c.reg_stride) THEN c.reg_stride[1] ELSE 0)
             /\ build(c).max_register = (IF IsSome(c.max_register) THEN c.max_register[1] ELSE 0)

\* Two configurations reached the environment: one with neither optional
\* field set, one with both.
C22_Witness ==
    \E i, j \in RmIdx :
        /\ rmLog[i].call = "devm_regmap_init_mmio"
        /\ rmLog[i].config.reg_stride = 0 /\ rmLog[i].config.max_register = 0
        /\ rmLog[j].call = "devm_regmap_init_mmio"
        /\ rmLog[j].config.reg_stride = 4 /\ rmLog[j].config.max_register = 8
        /\ rmLog[j].config.reg_bits = 8

\* C23: Regmap::read and Regmap::write succeed exactly when the environment
\* returns 0, a read yielding the value the environment stored; otherwise
\* they return an error carrying exactly the environment's code; neither
\* changes the accessor.
C23_ReadWriteResult ==
    [][RmCalled("regmap_write") \/ RmCalled("regmap_read") =>
        LET e == rmLog'[Len(rmLog) + 1]
        IN  /\ Len(rmLog') = Len(rmLog) + 1
            /\ rmResult'.ok <=> e.rc = 0
            /\ e.rc = 0 /\ e.call = "regmap_read" => rmResult' = OkValue(e.val)
            /\ e.rc = 0 /\ e.call = "regmap_write" => rmResult' = OkValue(0)
            /\ e.rc # 0 => rmResult' = ErrValue(e.rc)
            /\ regmap' = regmap
            /\ rmCfg' = rmCfg]_vars

\* A read returned the value the environment stored, then a write failed
\* with the environment's code.
C23_Witness ==
    /\ Len(rmLog) = 4
    /\ rmLog[3].call = "regmap_read" /\ rmLog[3].rc = 0 /\ rmLog[3].val = 16777216
    /\ rmLog[4].call = "regmap_write" /\ rmLog[4].rc = ENOMEM
    /\ rmResult = ErrValue(ENOMEM)
    /\ IsSome(regmap)

\* C27: init_mmio_platform_resource acquires the mapping before it
\* initialises the register map; when the mapping fails it returns that
\* error without initialising a register map and without a Regmap.
C27_MappingFirst ==
    /\ [](\A i \in RmIdx :
            rmLog[i].call = "devm_regmap_init_mmio" =>
                /\ i > 1
                /\ rmLog[i - 1].call = "devm_platform_ioremap_resource"
                /\ ~IsErrPtr(rmLog[i - 1].rc)
                /\ rmLog[i].reg = rmLog[i - 1].rc)
    /\ [][RmCalled("devm_platform_ioremap_resource") =>
            LET e == rmLog'[Len(rmLog) + 1]
            IN  IF IsErrPtr(e.rc)
                THEN /\ Len(rmLog') = Len(rmLog) + 1
                     /\ rmResult' = ErrValue(e.rc)
                     /\ regmap' = None
                ELSE /\ Len(rmLog') = Len(rmLog) + 2
                     /\ rmLog'[Len(rmLog) + 2].call = "devm_regmap_init_mmio"
                     /\ rmResult'.ok <=> ~IsErrPtr(rmLog'[Len(rmLog) + 2].rc)
                     /\ rmResult'.ok => regmap' = Some(rmLog'[Len(rmLog) + 2].rc)
                     /\ ~rmResult'.ok =>
                          /\ regmap' = None
                          /\ rmResult'.errno = rmLog'[Len(rmLog) + 2].rc]_vars

\* The first call mapped the resource and failed in the register-map
\* initialisation; the second failed in the mapping.
C27_Witness ==
    /\ rmCalls = 2
    /\ Len(rmLog) = 3
    /\ rmLog[2].call = "devm_regmap_init_mmio" /\ rmLog[2].rc = ENOMEM
    /\ rmLog[3].call = "devm_platform_ioremap_resource" /\ rmLog[3].rc = EBUSY
    /\ rmResult = ErrValue(EBUSY)
    /\ regmap = None

\* Observations on the RNG read handler: a read call returned in this step;
\* the register accesses it made; the bytes of a register value.
RngReadStep == rngReads' = rngReads + 1
RngAccesses == Len(rmLog') - Len(rmLog)
RngAccess(i) == rmLog'[Len(rmLog) + i]
BytesOf(v) ==
    <<v % 256, (v \div 256) % 256, (v \div 65536) % 256, (v \div 16777216) % 256>>
SkippedRead ==
    /\ RngAccesses = 0
    /\ outBuf' = <<>>
    /\ rngResult' = OkValue(0)
StatusRead ==
    /\ RngAccesses >= 1
    /\ RngAccess(1).call = "regmap_read"
    /\ RngAccess(1).reg = 4
DataRead ==
    /\ RngAccesses = 2
    /\ RngAccess(2).call = "regmap_read"
    /\ RngAccess(2).reg = 8
NoWordsRead ==
    /\ RngAccesses = 1
    /\ outBuf' = <<>>
    /\ rngResult' = OkValue(0)

\* C25 as stated: with a non-empty buffer at offset 0 the handler returns 0
\* without reading the data register or writing the buffer when
\* read(0x4) >> 24 is 0, and otherwise writes exactly the 4 bytes of
\* read(0x8) and returns 4; with an empty buffer or a non-zero offset it
\* returns 0 without any register access.
C25_Original ==
    [][RngReadStep =>
        IF rngCall'.len = 0 \/ rngCall'.offset # 0
        THEN SkippedRead
        ELSE /\ StatusRead
             /\ RngAccess(1).rc = 0 =>
                  IF RngAccess(1).val \div 16777216 = 0
                  THEN NoWordsRead
                  ELSE /\ DataRead
                       /\ outBuf' = BytesOf(RngAccess(2).val)
                       /\ rngResult' = OkValue(4)]_vars

\* C25 (amended): as stated when both register reads and the buffer write
\* succeed; a failing status read, data read or buffer write makes the
\* handler return that error, a failing register read leaving the buffer
\* unwritten and a failing status read leaving the data register unread.
C25_ReadHandler ==
    [][RngReadStep =>
        IF rngCall'.len = 0 \/ rngCall'.offset # 0
        THEN SkippedRead
        ELSE /\ StatusRead
             /\ RngAccess(1).rc # 0 =>
                  /\ RngAccesses = 1
                  /\ outBuf' = <<>>
                  /\ rngResult' = ErrValue(RngAccess(1).rc)
             /\ RngAccess(1).rc = 0 /\ RngAccess(1).val \div 16777216 = 0 =>
                  NoWordsRead
             /\ RngAccess(1).rc = 0 /\ RngAccess(1).val \div 16777216 # 0 =>
                  /\ DataRead
                  /\ RngAccess(2).rc # 0 =>
                       /\ outBuf' = <<>>
                       /\ rngResult' = ErrValue(RngAccess(2).rc)
                  /\ RngAccess(2).rc = 0 =>
                       \/ /\ outBuf' = BytesOf(RngAccess(2).val)
                          /\ rngResult' = OkValue(4)
                       \/ /\ Len(outBuf') < 4
                          /\ rngResult' = ErrValue(EFAULT)]_vars

\* A read found words available and failed in the data read: it returned
\* the environment's code and wrote nothing.
C25_Witness ==
    /\ rngReads = 2
    /\ rngCall = [len |-> 4, offset |-> 0]
    /\ Len(rmLog) = 8
    /\ rmLog[5].call = "regmap_read" /\ rmLog[5].reg = 4 /\ rmLog[5].val = 16777216
    /\ rmLog[6].call = "regmap_read" /\ rmLog[6].reg = 8 /\ rmLog[6].rc = 0
    /\ rmLog[7].call = "regmap_read" /\ rmLog[7].reg = 4 /\ rmLog[7].rc = 0
    /\ rmLog[8].call = "regmap_read" /\ rmLog[8].reg = 8 /\ rmLog[8].rc = ENOMEM
    /\ rngResult = ErrValue(ENOMEM)
    /\ outBuf = <<>>

\* The successful cdev_add calls in the log, and how many precede the i-th
\* log entry.
SuccessfulAdds == {i \in LogIdx : envLog[i].call = "cdev_add" /\ envLog[i].rc = 0}
AddRank(i) == Cardinality({j \in SuccessfulAdds : j < i})

\* C26: the k-th successful register call (k = 0..N-1) activates its handle
\* under sub-identifier namespace base + k with count 1 and stores it in
\* slot k; a failed call consumes no identifier and no slot, so the
\* activated sub-identifiers are contiguous and distinct.
C26_SubIdentifiers ==
    /\ [](/\ \A i \in LogIdx :
               envLog[i].call = "cdev_add" =>
                   /\ NamespaceAllocated
                   /\ envLog[i].dev = NamespaceBase + AddRank(i)
                   /\ envLog[i].count = 1
                   /\ AddRank(i) < N
          /\ ~dropped =>
               /\ UsedSlots = Cardinality(SuccessfulAdds)
               /\ Populated(inner) = 0..(UsedSlots - 1)
               /\ \A i \in SuccessfulAdds :
                    Unwrap(inner).cdevs[AddRank(i)] = Some(envLog[i].cdev))
    /\ [][RegisterStep =>
            IF result' = Ok
            THEN /\ UsedSlots' = UsedSlots + 1
                 /\ Populated(inner') = Populated(inner) \cup {UsedSlots}
            ELSE /\ UsedSlots' = UsedSlots
                 /\ Populated(inner') = Populated(inner)
                 /\ \A i \in 1..Len(Added) :
                      Added[i].call = "cdev_add" => Added[i].rc # 0]_vars

\* Three registrations filled slots 0..2 with a refused cdev_add in
\* between: the refused call and the next successful one name the same
\* sub-identifier.
C26_Witness ==
    /\ ~dropped /\ N = 3 /\ UsedSlots = 3 /\ calls = 4
    /\ \E i, j \in LogIdx :
         /\ i < j
         /\ envLog[i].call = "cdev_add" /\ envLog[i].rc = EBUSY
         /\ envLog[j].call = "cdev_add" /\ envLog[j].rc = 0
         /\ envLog[i].dev = NamespaceBase + 1
         /\ envLog[j].dev = NamespaceBase + 1

\* Observations on the platdev Registration.
PdevLogIdx == 1..Len(pdevLog)
PdevAppended == SubSeq(pdevLog', Len(pdevLog) + 1, Len(pdevLog'))
PlatdevNewStep == pdevCalls' = pdevCalls + 1
TableOf(p) == from_pointer(p[1])

\* C28: teardown of a platdev Registration unregisters the driver before it
\* frees the match table it installed: the table given to the environment
\* is allocated in every state in which the driver is registered.
C28_TableOutlivesRegistration ==
    /\ [](/\ pdevReg = "registered" /\ IsSome(pdevOfTable) =>
               tblState[TableOf(pdevOfTable)] = "raw"
          /\ \A i \in PdevLogIdx :
               pdevLog[i].call = "drop(OfMatchTable)" =>
                   /\ i > 1
                   /\ pdevLog[i - 1] = platform_driver_unregister)
    /\ [][pdevReg = "registered" /\ pdevReg' = "dropped" =>
            /\ PdevAppended[1] = platform_driver_unregister
            /\ IF IsSome(pdevOfTable)
               THEN /\ PdevAppended = <<platform_driver_unregister,
                                        drop_table(TableOf(pdevOfTable))>>
                    /\ tblState'[TableOf(pdevOfTable)] = "dropped"
               ELSE /\ PdevAppended = <<platform_driver_unregister>>
                    /\ tblState' = tblState]_vars

\* A Registration with a match table was torn down: unregistered, then the
\* table freed.
C28_Witness ==
    /\ pdevReg = "dropped"
    /\ pdevOfTable = Some(into_pointer(1))
    /\ pdevLog = <<platform_driver_register(0), platform_driver_unregister,
                   drop_table(1)>>
    /\ tblState[1] = "dropped"

\* C29 as stated: when the environment rejects the registration, new returns
\* that error and releases every resource it took, the match table
\* included: no match table stays allocated without an owner.
C29_RejectionReleasesTable ==
    /\ [](\A k \in TableObjects :
            tblState[k] = "raw" =>
                /\ pdevReg = "registered"
                /\ pdevOfTable = Some(into_pointer(k)))
    /\ [][PlatdevNewStep /\ Len(pdevLog') > Len(pdevLog)
              /\ pdevLog'[Len(pdevLog')].rc < 0 =>
            /\ pdevResult' = Err(pdevLog'[Len(pdevLog')].rc)
            /\ pdevReg' = "none"
            /\ pdevOfTable' = None]_vars

\* The environment rejected a registration that came with a match table:
\* new returned the error and the table is still allocated, as a raw
\* pointer nothing holds.
C29_Witness ==
    /\ pdevCalls = 1
    /\ pdevLog = <<platform_driver_register(EBUSY)>>
    /\ pdevResult = Err(EBUSY)
    /\ pdevReg = "none" /\ pdevOfTable = None
    /\ tblState[1] = "raw"

\* A probe callback ran on device d in this step.
ProbeStep(d) == probes' = probes + 1 /\ probeCall'.dev = d

\* C30: when the driver's probe fails, probe_callback returns the probe's
\* error code and stores no drvdata (nothing of the device changes);
\* drvdata is set only by a successful probe, to exactly the pointer made
\* from the probe's result.
C30_ProbeFailureStoresNothing ==
    /\ [](\A d \in Devices :
            drvdata[d] # 0 =>
                /\ probeRet[d] \in DrvObjects
                /\ drvdata[d] = into_pointer(probeRet[d])
                /\ intoCount[probeRet[d]] = 1)
    /\ [][\A d \in Devices : ProbeStep(d) =>
            IF probeCall'.err # 0
            THEN /\ cbRet'[d] = probeCall'.err
                 /\ drvdata' = drvdata
                 /\ probeRet' = probeRet
                 /\ drvState' = drvState
                 /\ intoCount' = intoCount
                 /\ bound'[d] = "unbound"
            ELSE /\ cbRet'[d] = 0
                 /\ probeRet'[d] = probes'
                 /\ drvdata'[d] = into_pointer(probes')
                 /\ drvState'[probes'] = "raw"
                 /\ \A e \in Devices \ {d} : drvdata'[e] = drvdata[e]]_vars

\* Device 1 was probed by one driver and is bound; then the probe of the
\* other driver on device 2 failed with the largest errno: the callback
\* returned it and device 2 has no drvdata.
C30_Witness ==
    /\ probes = 2
    /\ bound[1] = "platform_driver" /\ drvdata[1] = into_pointer(1)
    /\ probeCall = ProbeCall(2, -MAX_ERRNO)
    /\ cbRet[2] = -MAX_ERRNO
    /\ drvdata[2] = 0 /\ bound[2] = "unbound"
    /\ drvState[2] = "unborn"
    /\ pdevReg = "registered"

NamespaceReleases == {i \in LogIdx : envLog[i].call = "unregister_chrdev_region"}
TeardownStep == ~dropped /\ dropped'

\* C31: the namespace is released (unregister_chrdev_region of the
\* namespace base with count N) exactly once, at teardown, if and only if
\* a namespace allocation succeeded; the teardown of a Registration on
\* which no allocation ever succeeded makes no environment call.
C31_NamespaceReleasedOnce ==
    /\ [](/\ Cardinality(NamespaceReleases) =
               (IF dropped /\ NamespaceAllocated THEN 1 ELSE 0)
          /\ \A i \in NamespaceReleases :
               envLog[i] = unregister_chrdev_region(NamespaceBase, N))
    /\ [][TeardownStep =>
            IF NamespaceAllocated
            THEN /\ Len(Added) >= 1
                 /\ Cardinality({i \in 1..Len(Added) :
                        Added[i].call = "unregister_chrdev_region"}) = 1
            ELSE envLog' = envLog]_vars

\* A Registration of three slots whose first allocation was refused, whose
\* second succeeded, and on which no handle was ever registered, was torn
\* down: the namespace is released with count 3.
C31_Witness ==
    /\ dropped /\ N = 3 /\ Len(envLog) = 4
    /\ envLog[1].call = "alloc_chrdev_region" /\ envLog[1].rc = ENOMEM
    /\ envLog[2].call = "alloc_chrdev_region" /\ envLog[2].rc = 0
    /\ envLog[3] = cdev_alloc(0)
    /\ envLog[4] = unregister_chrdev_region(envLog[2].dev, 3)

====
